---- MODULE Spec2Model ----
(***************************************************************************)
(* Bengali proofreading add-in: the suggestion store of App.tsx, the       *)
(* document operations of utils/word.ts and the analysis run of            *)
(* checkSpelling.  Text is a sequence of one-character strings; the        *)
(* document is a sequence of cells, each a character with its highlight.   *)
(***************************************************************************)
EXTENDS Integers, Sequences, FiniteSets, TLC

\* ------------------------------------------------------------------------
\* Text helpers
\* ------------------------------------------------------------------------

\* The characters JavaScript's \s matches, among those the model uses.
WhiteSpace == {" ", "\t", "\r", "\n"}

\* The delimiters handed to getTextRanges.
Delimiters == {" ", "\r", "\n", "\t"}

\* String.prototype.toLowerCase on one character of the model's alphabet.
ToLowerChar(c) ==
  CASE c = "X" -> "x"
    [] c = "Y" -> "y"
    [] c = "Z" -> "z"
    [] OTHER -> c

ToLowerCase(s) == [i \in DOMAIN s |-> ToLowerChar(s[i])]

RECURSIVE TrimStart(_)
TrimStart(s) ==
  IF s = <<>> THEN <<>>
  ELSE IF Head(s) \in WhiteSpace THEN TrimStart(Tail(s)) ELSE s

RECURSIVE TrimEnd(_)
TrimEnd(s) ==
  IF s = <<>> THEN <<>>
  ELSE IF s[Len(s)] \in WhiteSpace THEN TrimEnd(SubSeq(s, 1, Len(s) - 1)) ELSE s

\* String.prototype.trim
Trim(s) == TrimEnd(TrimStart(s))

\* /\s/.test(s)
HasSpace(s) == \E i \in DOMAIN s : s[i] \in WhiteSpace

\* s.replace(/[\r\n]+/g, ' '): every run of CR/LF becomes one space.
RECURSIVE ReplaceNewlines(_)
ReplaceNewlines(s) ==
  IF s = <<>> THEN <<>>
  ELSE IF Head(s) \in {"\r", "\n"}
       THEN IF Len(s) > 1 /\ s[2] \in {"\r", "\n"}
            THEN ReplaceNewlines(Tail(s))
            ELSE <<" ">> \o ReplaceNewlines(Tail(s))
       ELSE <<Head(s)>> \o ReplaceNewlines(Tail(s))

\* s.replace(/\s+/g, ' '): every run of white space becomes one space.
RECURSIVE CollapseSpaces(_)
CollapseSpaces(s) ==
  IF s = <<>> THEN <<>>
  ELSE IF Head(s) \in WhiteSpace
       THEN IF Len(s) > 1 /\ s[2] \in WhiteSpace
            THEN CollapseSpaces(Tail(s))
            ELSE <<" ">> \o CollapseSpaces(Tail(s))
       ELSE <<Head(s)>> \o CollapseSpaces(Tail(s))

\* A plausible slip: compare anchors without lower-casing them.
normalize_keepCase(str) ==
  IF str = <<>> THEN <<>>
  ELSE CollapseSpaces(ReplaceNewlines(Trim(str)))

\* normalize: trim, newlines to spaces, collapse white space, lower case.
normalize(str) ==
  IF str = <<>> THEN <<>>
  ELSE ToLowerCase(CollapseSpaces(ReplaceNewlines(Trim(str))))

\* text.split(/\s+/).filter(Boolean): the white-space separated words.
RECURSIVE SplitWords(_)
SplitWords(s) ==
  LET t == TrimStart(s) IN
  IF t = <<>> THEN <<>>
  ELSE LET n == CHOOSE k \in 1..Len(t) :
                  /\ \A j \in 1..k : t[j] \notin WhiteSpace
                  /\ (k = Len(t) \/ t[k + 1] \in WhiteSpace)
       IN <<SubSeq(t, 1, n)>> \o SplitWords(SubSeq(t, n + 1, Len(t)))

\* ------------------------------------------------------------------------
\* The host document (Word): cells, token ranges, search, mutation
\* ------------------------------------------------------------------------

NoHighlight == "None"

\* A run of text with no highlight.
PlainCells(s) == [i \in DOMAIN s |-> [ch |-> s[i], hl |-> NoHighlight]]

\* body.text
BodyText(d) == [i \in DOMAIN d |-> d[i].ch]

\* whole.getTextRanges([" ", "\r", "\n", "\t"], true): the maximal runs of
\* non-delimiter characters, left to right, each as <<first, last>>.
RECURSIVE TextRangesFrom(_, _)
TextRangesFrom(t, i) ==
  IF i > Len(t) THEN <<>>
  ELSE IF t[i] \in Delimiters THEN TextRangesFrom(t, i + 1)
  ELSE LET e == CHOOSE k \in i..Len(t) :
                  /\ \A j \in i..k : t[j] \notin Delimiters
                  /\ (k = Len(t) \/ t[k + 1] \in Delimiters)
       IN <<<<i, e>>>> \o TextRangesFrom(t, e + 1)

getTextRanges(d) == TextRangesFrom(BodyText(d), 1)

\* What body.search compares under matchCase:false and ignoreSpace:true:
\* the characters without white space, lower-cased.
SearchKey(s) == ToLowerCase(SelectSeq(s, LAMBDA c : c \notin WhiteSpace))

\* The range s..e of t is an occurrence of pat.
IsMatch(t, s, e, pat, matchWholeWord) ==
  /\ t[s] \notin WhiteSpace
  /\ t[e] \notin WhiteSpace
  /\ SearchKey(SubSeq(t, s, e)) = SearchKey(pat)
  /\ matchWholeWord =>
       /\ (s = 1 \/ t[s - 1] \in WhiteSpace)
       /\ (e = Len(t) \/ t[e + 1] \in WhiteSpace)

\* body.search scans left to right and returns non-overlapping occurrences.
RECURSIVE SearchFrom(_, _, _, _)
SearchFrom(t, i, pat, matchWholeWord) ==
  LET starts == {s \in i..Len(t) :
                   \E e \in s..Len(t) : IsMatch(t, s, e, pat, matchWholeWord)}
  IN IF starts = {} THEN <<>>
     ELSE LET s == CHOOSE x \in starts : \A y \in starts : x <= y
              e == CHOOSE x \in s..Len(t) : IsMatch(t, s, x, pat, matchWholeWord)
          IN <<<<s, e>>>> \o SearchFrom(t, e + 1, pat, matchWholeWord)

search(d, pat, matchWholeWord) == SearchFrom(BodyText(d), 1, pat, matchWholeWord)

\* range.font.highlightColor = color
SetHighlight(d, r, color) ==
  [i \in DOMAIN d |-> IF i \in r[1]..r[2] THEN [d[i] EXCEPT !.hl = color] ELSE d[i]]

\* A plausible slip: the inserted text keeps the marker of the range.
InsertReplace_keepHighlight(d, r, newText) ==
  SubSeq(d, 1, r[1] - 1)
    \o [i \in DOMAIN newText |-> [ch |-> newText[i], hl |-> d[r[1]].hl]]
    \o SubSeq(d, r[2] + 1, Len(d))

\* range.insertText(newText, "Replace"); range.font.highlightColor = "None"
InsertReplace(d, r, newText) ==
  SubSeq(d, 1, r[1] - 1) \o PlainCells(newText) \o SubSeq(d, r[2] + 1, Len(d))

\* The queued mutations of one batch, applied on sync.  Ranges are disjoint
\* and ascending, so they are applied last to first.
RECURSIVE HighlightAll(_, _, _)
HighlightAll(d, ranges, color) ==
  IF ranges = <<>> THEN d
  ELSE HighlightAll(SetHighlight(d, Head(ranges), color), Tail(ranges), color)

RECURSIVE ReplaceAll(_, _, _)
ReplaceAll(d, ranges, newText) ==
  IF ranges = <<>> THEN d
  ELSE InsertReplace(ReplaceAll(d, Tail(ranges), newText), Head(ranges), newText)

\* ------------------------------------------------------------------------
\* utils/word.ts
\* ------------------------------------------------------------------------

\* A position is a JSON value: a number or absent.
undefined == [t |-> "undefined", v |-> 0]

Number(n) == [t |-> "number", v |-> n]

\* The number n + 1/2: a number that is not an integer.
NonInteger(n) == [t |-> "number", v |-> n, half |-> TRUE]

\* typeof position === 'number'
IsNumber(position) == position.t = "number"

\* words.items[position] is an item: the index is an integer.  For any
\* other number it is undefined, and the use of it throws.
IsInteger(position) == "half" \notin DOMAIN position

\* Where a host transaction may throw: nowhere, at the sync after the token
\* ranges are loaded, at the sync after the search results are loaded, or at
\* the sync that flushes the queued mutations.
HostFailures == {"none", "load", "search", "flush"}

\* A plausible slip: never address by index, always search.
UsePosition_never(cleanText, position) == FALSE

\* typeof position === 'number' && position >= 0 && !hasSpace
UsePosition(cleanText, position) ==
  IsNumber(position) /\ position.v >= 0 /\ ~HasSpace(cleanText)

\* A plausible slip: stop after the first search result.
ReplaceResults_firstOnly(d, results, newText) ==
  IF results = <<>> THEN d ELSE InsertReplace(d, Head(results), newText)

\* results.items.forEach(item => { insertText; highlightColor = "None" })
ReplaceResults(d, results, newText) == ReplaceAll(d, results, newText)

\* A plausible slip: mark only the first search result.
HighlightResults_firstOnly(d, results, color) ==
  IF results = <<>> THEN d ELSE SetHighlight(d, Head(results), color)

\* for (i ...) results.items[i].font.highlightColor = color
HighlightResults(d, results, color) == HighlightAll(d, results, color)

\* A plausible slip: report success whenever the transaction ran.
FoundAny_always(results) == TRUE

\* results.items.length > 0
FoundAny(results) == Len(results) > 0

\* highlightInWord(text, color, position) against document d, the host
\* failing at `fail`.  doc: the document afterwards; ranges: the ranges of d
\* whose highlight was set.
highlightInWord(d, text, color, position, fail) ==
  LET cleanText == Trim(text)
      hasSpace == HasSpace(cleanText)
      words == getTextRanges(d)
      results == search(d, cleanText, ~hasSpace)
      nothing == [doc |-> d, ranges |-> <<>>]
  IN IF cleanText = <<>> THEN nothing
     ELSE IF UsePosition(cleanText, position) /\ fail = "load" THEN nothing
     ELSE IF UsePosition(cleanText, position) /\ position.v < Len(words)
          THEN IF fail = "flush" \/ ~IsInteger(position) THEN nothing
               ELSE [doc |-> SetHighlight(d, words[position.v + 1], color),
                     ranges |-> <<words[position.v + 1]>>]
     ELSE IF fail \in {"search", "flush"} THEN nothing
     ELSE [doc |-> HighlightResults(d, results, color), ranges |-> results]

\* A plausible slip: success is set before the flush is awaited.
replaceInWord_successBeforeFlush(d, oldText, newText, position, fail) ==
  LET cleanOldText == Trim(oldText)
      hasSpace == HasSpace(cleanOldText)
      words == getTextRanges(d)
      results == search(d, cleanOldText, ~hasSpace)
      failed == [doc |-> d, success |-> FALSE, ranges |-> <<>>]
      unflushed == [doc |-> d, success |-> TRUE, ranges |-> <<>>]
  IN IF cleanOldText = <<>> THEN failed
     ELSE IF UsePosition(cleanOldText, position) /\ fail = "load" THEN failed
     ELSE IF UsePosition(cleanOldText, position) /\ position.v < Len(words)
          THEN IF ~IsInteger(position) THEN failed
               ELSE IF fail = "flush" THEN unflushed
               ELSE [doc |-> InsertReplace(d, words[position.v + 1], newText),
                     success |-> TRUE,
                     ranges |-> <<words[position.v + 1]>>]
     ELSE IF fail = "search" THEN failed
     ELSE IF FoundAny(results)
          THEN IF fail = "flush" THEN unflushed
               ELSE [doc |-> ReplaceResults(d, results, newText),
                     success |-> TRUE,
                     ranges |-> results]
     ELSE failed

\* replaceInWord(oldText, newText, position) against document d, the host
\* failing at `fail`.  success: the value returned; ranges: the ranges of d
\* that were replaced.
replaceInWord(d, oldText, newText, position, fail) ==
  LET cleanOldText == Trim(oldText)
      hasSpace == HasSpace(cleanOldText)
      words == getTextRanges(d)
      results == search(d, cleanOldText, ~hasSpace)
      failed == [doc |-> d, success |-> FALSE, ranges |-> <<>>]
  IN IF cleanOldText = <<>> THEN failed
     ELSE IF UsePosition(cleanOldText, position) /\ fail = "load" THEN failed
     ELSE IF UsePosition(cleanOldText, position) /\ position.v < Len(words)
          THEN IF fail = "flush" \/ ~IsInteger(position) THEN failed
               ELSE [doc |-> InsertReplace(d, words[position.v + 1], newText),
                     success |-> TRUE,
                     ranges |-> <<words[position.v + 1]>>]
     ELSE IF fail = "search" THEN failed
     ELSE IF FoundAny(results)
          THEN IF fail = "flush" THEN failed
               ELSE [doc |-> ReplaceResults(d, results, newText),
                     success |-> TRUE,
                     ranges |-> results]
     ELSE failed

\* clearHighlights: body.font.highlightColor = "None"
clearHighlights(d, fail) ==
  IF fail = "flush" THEN d ELSE [i \in DOMAIN d |-> [d[i] EXCEPT !.hl = NoHighlight]]

\* ------------------------------------------------------------------------
\* State
\* ------------------------------------------------------------------------

VARIABLES
  doc,                  \* the host document: a sequence of [ch, hl] cells
  corrections,          \* spelling suggestions (anchor field: wrong)
  toneSuggestions,      \* tone suggestions (anchor field: current)
  styleSuggestions,     \* style suggestions (anchor field: current)
  languageStyleMixing,  \* the style-mixing group, or null
  punctuationIssues,    \* punctuation suggestions (anchor: currentSentence)
  euphonyImprovements,  \* euphony suggestions (anchor field: current)
  contentAnalysis,      \* the content summary, or null
  stats,                \* [totalWords, errorCount, accuracy]
  isLoading,            \* a run is in its running state
  loadingText,          \* the step shown while running
  message,              \* the message last shown, or null
  activeModal,          \* the dialog shown
  runs,                 \* the invocations of checkSpelling, by number
  highlightTimeoutRef,  \* the id of the timer handleHighlight set last, or 0
  timers,               \* the timers set and neither fired nor cleared
  transactions,         \* the document transactions the cards have in flight
  last                  \* the most recent call: arguments, result, state before

store == <<corrections, toneSuggestions, styleSuggestions, languageStyleMixing,
           punctuationIssues, euphonyImprovements, contentAnalysis, stats>>

ui == <<isLoading, loadingText, message, activeModal>>

hover == <<highlightTimeoutRef, timers, transactions>>

vars == <<doc, corrections, toneSuggestions, styleSuggestions,
          languageStyleMixing, punctuationIssues, euphonyImprovements,
          contentAnalysis, stats, isLoading, loadingText, message,
          activeModal, runs, highlightTimeoutRef, timers, transactions, last>>

\* null, for the state slots that hold an object or null.
null == [isNull |-> TRUE]

\* The state a call started from, kept in `last` for the properties.
Snapshot ==
  [doc |-> doc,
   corrections |-> corrections,
   toneSuggestions |-> toneSuggestions,
   styleSuggestions |-> styleSuggestions,
   languageStyleMixing |-> languageStyleMixing,
   punctuationIssues |-> punctuationIssues,
   euphonyImprovements |-> euphonyImprovements,
   contentAnalysis |-> contentAnalysis,
   stats |-> stats]

\* useState initial values (App.tsx 97-128).
InitStore ==
  /\ corrections = <<>>
  /\ toneSuggestions = <<>>
  /\ styleSuggestions = <<>>
  /\ languageStyleMixing = null
  /\ punctuationIssues = <<>>
  /\ euphonyImprovements = <<>>
  /\ contentAnalysis = null
  /\ stats = [totalWords |-> 0, errorCount |-> 0, accuracy |-> 100]

InitUi ==
  /\ isLoading = FALSE
  /\ loadingText = ""
  /\ message = null
  /\ activeModal = "none"
  /\ highlightTimeoutRef = 0
  /\ timers = {}
  /\ transactions = <<>>

\* ------------------------------------------------------------------------
\* Bounds
\* ------------------------------------------------------------------------

\* The number of direct calls to utils/word.ts explored in one behaviour.
MaxCalls == 1

\* Text fragments, written as character sequences.
Tx == <<"x">>
Ty == <<"y">>
Tz == <<"z">>
TXsp == <<"X", " ">>
Txy == <<"x", " ", " ", "y">>
Tblank == <<" ">>
Tempty == <<>>
Tzz == <<"z", " ", "z">>

\* The documents the checks start from: "x y", "y X x", "x y X\ny".
Docs ==
  { PlainCells(<<"x", " ", "y">>),
    PlainCells(<<"y", " ", "X", " ", "x">>),
    PlainCells(<<"x", " ", "y", " ", "X", "\n", "y">>) }

\* Arguments of direct calls to the functions of utils/word.ts.
WordTexts == {Tx, TXsp, Tz, Txy, Tblank, Tempty}
WordNewTexts == {Tz, Tzz, Tempty}
WordPositions ==
  {undefined, Number(-1), Number(0), Number(1), Number(4), NonInteger(0)}
Colors == {"#fee2e2"}

\* The documents direct calls start from: plain, or marked by an earlier run.
WordDocs ==
  Docs \cup {[i \in DOMAIN d |-> [d[i] EXCEPT !.hl = "#fef3c7"]] : d \in Docs}

\* ------------------------------------------------------------------------
\* Direct calls of utils/word.ts (specification SpecWord)
\* ------------------------------------------------------------------------

NoCall == [op |-> "none", n |-> 0]

HighlightInWordCall ==
  \E text \in WordTexts, color \in Colors, position \in WordPositions,
     fail \in HostFailures :
    LET r == highlightInWord(doc, text, color, position, fail) IN
    /\ last.n < MaxCalls
    /\ doc' = r.doc
    /\ last' = [op |-> "highlight", n |-> last.n + 1, text |-> text, color |-> color,
                position |-> position, fail |-> fail, ranges |-> r.ranges,
                pre |-> Snapshot]
    /\ UNCHANGED <<store, ui, runs, hover>>

ReplaceInWordCall ==
  \E oldText \in WordTexts, newText \in WordNewTexts,
     position \in WordPositions, fail \in HostFailures :
    LET r == replaceInWord(doc, oldText, newText, position, fail) IN
    /\ last.n < MaxCalls
    /\ doc' = r.doc
    /\ last' = [op |-> "replace", n |-> last.n + 1, text |-> oldText, newText |-> newText,
                position |-> position, fail |-> fail, success |-> r.success,
                ranges |-> r.ranges, pre |-> Snapshot]
    /\ UNCHANGED <<store, ui, runs, hover>>

ClearHighlightsCall ==
  \E fail \in {"none", "flush"} :
    /\ last.n < MaxCalls
    /\ doc' = clearHighlights(doc, fail)
    /\ last' = [op |-> "clear", n |-> last.n + 1, fail |-> fail, pre |-> Snapshot]
    /\ UNCHANGED <<store, ui, runs, hover>>

InitWord ==
  /\ doc \in WordDocs
  /\ InitStore
  /\ InitUi
  /\ runs = <<>>
  /\ last = NoCall

NextWord == HighlightInWordCall \/ ReplaceInWordCall \/ ClearHighlightsCall

SpecWord == InitWord /\ [][NextWord]_vars

\* ------------------------------------------------------------------------
\* App.tsx: the suggestion store
\* ------------------------------------------------------------------------

\* The keys dismissSuggestion switches on, and the list each one names.
Categories == {"spelling", "tone", "style", "mixing", "punct", "euphony"}

\* A suggestion of any category: its anchor (wrong / current /
\* currentSentence), the replacement offered, and its position.
Entry(text, suggestion, position) ==
  [text |-> text, suggestion |-> suggestion, position |-> position]

\* a.position ?? 0, counted in halves
PositionOrZero(e) ==
  IF IsNumber(e.position)
  THEN 2 * e.position.v + (IF IsInteger(e.position) THEN 0 ELSE 1)
  ELSE 0

\* typeof e.position === 'number' ? e.position : undefined
CoercePosition(e) ==
  [e EXCEPT !.position = IF e.position.t = "number" THEN e.position ELSE undefined]

\* A plausible slip: an item goes in front of the items it compares equal to.
RECURSIVE SortByPosition_unstable(_)
SortByPosition_unstable(list) ==
  IF list = <<>> THEN <<>>
  ELSE LET init == SortByPosition_unstable(SubSeq(list, 1, Len(list) - 1))
           e == list[Len(list)]
           k == Cardinality({i \in DOMAIN init :
                               PositionOrZero(init[i]) < PositionOrZero(e)})
       IN SubSeq(init, 1, k) \o <<e>> \o SubSeq(init, k + 1, Len(init))

\* list.sort((a, b) => (a.position ?? 0) - (b.position ?? 0)); the sort is
\* stable, so an item goes behind the items that do not compare greater.
RECURSIVE SortByPosition(_)
SortByPosition(list) ==
  IF list = <<>> THEN <<>>
  ELSE LET init == SortByPosition(SubSeq(list, 1, Len(list) - 1))
           e == list[Len(list)]
           k == Cardinality({i \in DOMAIN init :
                               PositionOrZero(init[i]) <= PositionOrZero(e)})
       IN SubSeq(init, 1, k) \o <<e>> \o SubSeq(init, k + 1, Len(init))

\* (result.xs || []).map(position coercion), then the sort.
Ingest(items) == SortByPosition([i \in DOMAIN items |-> CoercePosition(items[i])])

\* text.trim().length > 0 ? text.trim().split(/\s+/).filter(Boolean).length : 0
CountWords(text) ==
  IF Len(Trim(text)) > 0 THEN Len(SplitWords(Trim(text))) ELSE 0

\* JavaScript numbers are IEEE 754 doubles: 53 significant bits, each
\* operation rounded to the nearest double, ties to the even one. A double is
\* modelled as [neg, m, scale]: the bits m (most significant first, at most
\* 53 of them, the first one 1, or <<>> for zero) with the binary point
\* `scale` bits from the right.
Precision == 53

RECURSIVE IntBits(_)
IntBits(n) == IF n = 0 THEN <<>> ELSE IntBits(n \div 2) \o <<n % 2>>

RECURSIVE BitsToInt(_)
BitsToInt(b) ==
  IF b = <<>> THEN 0 ELSE 2 * BitsToInt(SubSeq(b, 1, Len(b) - 1)) + b[Len(b)]

\* The first k bits after the binary point of r / w, for 0 <= r < w.
RECURSIVE FracBits(_, _, _)
FracBits(r, w, k) ==
  IF k = 0 THEN <<>>
  ELSE IF 2 * r >= w THEN <<1>> \o FracBits(2 * r - w, w, k - 1)
       ELSE <<0>> \o FracBits(2 * r, w, k - 1)

\* What is left of r / w after those k bits: zero or not.
RECURSIVE FracRest(_, _, _)
FracRest(r, w, k) ==
  IF k = 0 THEN r
  ELSE IF 2 * r >= w THEN FracRest(2 * r - w, w, k - 1)
       ELSE FracRest(2 * r, w, k - 1)

RECURSIVE StripZeros(_)
StripZeros(b) ==
  IF b # <<>> /\ Head(b) = 0 THEN StripZeros(Tail(b)) ELSE b

\* b + 1 on bit sequences.
RECURSIVE Increment(_)
Increment(b) ==
  IF b = <<>> THEN <<1>>
  ELSE IF b[Len(b)] = 0 THEN SubSeq(b, 1, Len(b) - 1) \o <<1>>
       ELSE Increment(SubSeq(b, 1, Len(b) - 1)) \o <<0>>

\* The bits b with `scale` of them after the point, and `sticky` telling
\* whether more non-zero bits follow, rounded to the nearest double.
RoundToDouble(neg, bits, scale, sticky) ==
  LET b == StripZeros(bits) IN
  IF Len(b) <= Precision THEN [neg |-> neg, m |-> b, scale |-> scale]
  ELSE LET kept == SubSeq(b, 1, Precision)
           guard == b[Precision + 1]
           rest == sticky \/ \E i \in (Precision + 2)..Len(b) : b[i] = 1
           up == guard = 1 /\ (rest \/ kept[Precision] = 1)
           r == IF up THEN Increment(kept) ELSE kept
           dropped == Len(b) - Precision
       IN IF Len(r) > Precision
          THEN [neg |-> neg, m |-> SubSeq(r, 1, Precision),
                scale |-> scale - dropped - 1]
          ELSE [neg |-> neg, m |-> r, scale |-> scale - dropped]

\* The double a / w, for integers a and w > 0.
Divide(a, w) ==
  LET n == IF a < 0 THEN -a ELSE a
      k == Precision + Len(IntBits(w)) + 2
  IN RoundToDouble(a < 0, IntBits(n \div w) \o FracBits(n % w, w, k), k,
                   FracRest(n % w, w, k) # 0)

\* b * c on bit sequences, c a small integer; from the last bit, with carry.
RECURSIVE TimesFrom(_, _, _)
TimesFrom(b, c, carry) ==
  IF b = <<>> THEN IntBits(carry)
  ELSE LET t == b[Len(b)] * c + carry
       IN IF t % 2 = 0
          THEN TimesFrom(SubSeq(b, 1, Len(b) - 1), c, t \div 2) \o <<0>>
          ELSE TimesFrom(SubSeq(b, 1, Len(b) - 1), c, t \div 2) \o <<1>>

\* The double x * c.
Times(x, c) == RoundToDouble(x.neg, TimesFrom(x.m, c, 0), x.scale, FALSE)

\* Math.round: the nearest integer, a half going upwards.
MathRound(x) ==
  LET len == Len(x.m)
      whole == IF x.scale <= 0 THEN x.m \o [i \in 1..(-x.scale) |-> 0]
               ELSE IF x.scale >= len THEN <<>>
               ELSE SubSeq(x.m, 1, len - x.scale)
      frac == IF x.scale <= 0 THEN <<>>
              ELSE IF x.scale >= len THEN [i \in 1..(x.scale - len) |-> 0] \o x.m
              ELSE SubSeq(x.m, len - x.scale + 1, len)
      half == frac # <<>> /\ frac[1] = 1
      more == \E i \in 2..Len(frac) : frac[i] = 1
      n == BitsToInt(whole)
  IN IF x.neg THEN -(n + (IF half /\ more THEN 1 ELSE 0))
     ELSE n + (IF half THEN 1 ELSE 0)

\* The percentage the formula names when it is computed exactly: the nearest
\* integer to 100 (words - errors) / words, a half going upwards.
Accuracy_exact(words, errors) ==
  IF words > 0 THEN (200 * (words - errors) + words) \div (2 * words) ELSE 100

\* words > 0 ? Math.round(((words - errors) / words) * 100) : 100
Accuracy(words, errors) ==
  IF words > 0 THEN MathRound(Times(Divide(words - errors, words), 100)) ELSE 100

\* The stats performMainCheck sets for the analysed text and the spelling
\* entries it ingested.
StatsOf(text, allSpelling) ==
  [totalWords |-> CountWords(text),
   errorCount |-> Len(allSpelling),
   accuracy |-> Accuracy(CountWords(text), Len(allSpelling))]

\* A plausible slip: compare the raw strings.
isNotMatch_raw(textToCheck, target) == textToCheck # target

\* handleReplace: isNotMatch = normalize(textToCheck) !== target
isNotMatch(textToCheck, target) == normalize(textToCheck) # target

\* A plausible slip: compare the raw strings.
isNotMatchDismiss_raw(t, target) == t # target

\* dismissSuggestion: isNotMatch = normalize(t) !== target
isNotMatchDismiss(t, target) == normalize(t) # target

\* A plausible slip: keep the emptied group.
CollapseMixing_keepEmpty(prev, filtered) == [prev EXCEPT !.corrections = filtered]

\* filtered.length > 0 ? { ...prev, corrections: filtered } : null
CollapseMixing(prev, filtered) ==
  IF Len(filtered) > 0 THEN [prev EXCEPT !.corrections = filtered] ELSE null

\* A plausible slip: reconcile whatever replaceInWord returned.
ReplaceFilter_always(success, prev, target) ==
  SelectSeq(prev, LAMBDA c : isNotMatch(c.text, target))

\* if (success) setXs(prev => prev.filter(c => isNotMatch(anchor of c)))
ReplaceFilter(success, prev, target) ==
  IF success THEN SelectSeq(prev, LAMBDA c : isNotMatch(c.text, target)) ELSE prev

\* if (success) setLanguageStyleMixing(prev => ...)
ReplaceFilterMixing(success, prev, target) ==
  IF ~success THEN prev
  ELSE IF prev = null \/ ~prev.hasCorrections THEN prev
  ELSE CollapseMixing(prev, SelectSeq(prev.corrections,
                                      LAMBDA c : isNotMatch(c.text, target)))

\* A plausible slip: a dismiss that filters every list, as a replace does.
DismissFilter_everyList(type, key, prev, target) ==
  SelectSeq(prev, LAMBDA c : isNotMatchDismiss(c.text, target))

\* switch (type) { case key: setXs(prev => prev.filter(...)) }
DismissFilter(type, key, prev, target) ==
  IF type = key
  THEN SelectSeq(prev, LAMBDA c : isNotMatchDismiss(c.text, target))
  ELSE prev

\* case 'mixing': setLanguageStyleMixing(prev => ...)
DismissFilterMixing(type, prev, target) ==
  IF type # "mixing" THEN prev
  ELSE IF prev = null \/ ~prev.hasCorrections THEN prev
  ELSE CollapseMixing(prev, SelectSeq(prev.corrections,
                                      LAMBDA c : isNotMatchDismiss(c.text, target)))

\* The cards the panel renders for a category: the entries a click can name.
Cards(type) ==
  CASE type = "spelling" -> corrections
    [] type = "tone" -> toneSuggestions
    [] type = "style" -> styleSuggestions
    [] type = "punct" -> punctuationIssues
    [] type = "euphony" -> euphonyImprovements
    [] type = "mixing" ->
         IF languageStyleMixing # null /\ languageStyleMixing.detected
              /\ languageStyleMixing.hasCorrections
         THEN languageStyleMixing.corrections ELSE <<>>

\* The position the card's accept button passes: the punctuation card
\* passes none.
CardPosition(type, c) == IF type = "punct" THEN undefined ELSE c.position

\* The clicks on the cards' buttons explored in one behaviour.
MaxCardActions == 2

MsgCorrected == [text |-> "corrected", type |-> "success"]
MsgNotFound == [text |-> "not found in document", type |-> "error"]

\* handleReplace(oldText, newText, position), the host failing at `fail`.
handleReplace(type, oldText, newText, position, fail) ==
  \E r \in {replaceInWord(doc, oldText, newText, position, fail)},
     target \in {normalize(Trim(oldText))} :
     /\ doc' = r.doc
     /\ corrections' = ReplaceFilter(r.success, corrections, target)
     /\ toneSuggestions' = ReplaceFilter(r.success, toneSuggestions, target)
     /\ styleSuggestions' = ReplaceFilter(r.success, styleSuggestions, target)
     /\ euphonyImprovements' = ReplaceFilter(r.success, euphonyImprovements, target)
     /\ punctuationIssues' = ReplaceFilter(r.success, punctuationIssues, target)
     /\ languageStyleMixing' =
          ReplaceFilterMixing(r.success, languageStyleMixing, target)
     /\ message' = IF r.success THEN MsgCorrected ELSE MsgNotFound
     /\ last' = [op |-> "handleReplace", n |-> last.n + 1, type |-> type,
                 text |-> oldText, newText |-> newText, position |-> position,
                 fail |-> fail, success |-> r.success, ranges |-> r.ranges,
                 pre |-> Snapshot]
     /\ UNCHANGED <<contentAnalysis, stats, isLoading, loadingText,
                    activeModal, runs>>

\* The host failures tried under the store: none, or a failed flush.
StoreFailures == {"none", "flush"}

\* A click on a suggestion button of a card.
HandleReplace ==
  \E type \in Categories, fail \in StoreFailures :
    \E i \in DOMAIN Cards(type) :
      LET c == Cards(type)[i] IN
      /\ last.n < MaxCardActions
      /\ handleReplace(type, c.text, c.suggestion, CardPosition(type, c), fail)
      /\ UNCHANGED hover

\* dismissSuggestion(type, textToDismiss)
dismissSuggestion(type, textToDismiss) ==
  \E target \in {normalize(textToDismiss)} :
  /\ corrections' = DismissFilter(type, "spelling", corrections, target)
  /\ toneSuggestions' = DismissFilter(type, "tone", toneSuggestions, target)
  /\ styleSuggestions' = DismissFilter(type, "style", styleSuggestions, target)
  /\ languageStyleMixing' = DismissFilterMixing(type, languageStyleMixing, target)
  /\ punctuationIssues' = DismissFilter(type, "punct", punctuationIssues, target)
  /\ euphonyImprovements' = DismissFilter(type, "euphony", euphonyImprovements, target)
  /\ last' = [op |-> "dismiss", n |-> last.n + 1, type |-> type, text |-> textToDismiss,
              pre |-> Snapshot]
  /\ UNCHANGED <<doc, contentAnalysis, stats, ui, runs, hover>>

\* A click on the dismiss button of a card.
DismissSuggestion ==
  \E type \in Categories :
    \E i \in DOMAIN Cards(type) :
      /\ last.n < MaxCardActions
      /\ dismissSuggestion(type, Cards(type)[i].text)

\* ------------------------------------------------------------------------
\* The store after an analysis (specification SpecStore)
\* ------------------------------------------------------------------------

\* The most suggestions one analysis leaves in the store, all lists together.
MaxItems == 3

\* What the service may flag: x at index 0, "X " without position (the same
\* anchor up to case and spacing), y with a position past the document.
ServiceItems ==
  { Entry(Tx, Tz, Number(0)),
    Entry(TXsp, Tz, undefined),
    Entry(Ty, Tzz, Number(4)) }

\* The documents an analysis leaves behind: "x y" with its highlights, and
\* "z X x", edited since it was analysed.
StoreDocs ==
  { [i \in 1..3 |-> [ch |-> <<"x", " ", "y">>[i], hl |-> "#fee2e2"]],
    PlainCells(<<"z", " ", "X", " ", "x">>) }

\* The items of a batch that the service filed under a category.
OfCategory(batch, type) ==
  LET sel == SelectSeq(batch, LAMBDA b : b.type = type)
  IN [i \in DOMAIN sel |-> sel[i].item]

\* The languageStyleMixing object of a response: absent, without a
\* corrections list, or with one.
MixingShapes == {"null", "bare", "detected", "undetected"}

MixingOf(shape, items) ==
  CASE shape = "null" -> null
    [] shape = "bare" ->
         [detected |-> FALSE, recommendedStyle |-> "none", reason |-> "",
          hasCorrections |-> FALSE, corrections |-> <<>>]
    [] shape = "detected" ->
         [detected |-> TRUE, recommendedStyle |-> "cholito", reason |-> "mixed",
          hasCorrections |-> TRUE, corrections |-> Ingest(items)]
    [] shape = "undetected" ->
         [detected |-> FALSE, recommendedStyle |-> "none", reason |-> "",
          hasCorrections |-> TRUE, corrections |-> Ingest(items)]

Tagged == [type : Categories, item : ServiceItems]

Batches == UNION {[1..n -> Tagged] : n \in 0..MaxItems}

InitAnalysed ==
  \E batch \in Batches, shape \in MixingShapes :
    /\ shape \in {"null", "bare"} => OfCategory(batch, "mixing") = <<>>
    /\ doc \in StoreDocs
    /\ corrections = Ingest(OfCategory(batch, "spelling"))
    /\ toneSuggestions = Ingest(OfCategory(batch, "tone"))
    /\ styleSuggestions = Ingest(OfCategory(batch, "style"))
    /\ languageStyleMixing = MixingOf(shape, OfCategory(batch, "mixing"))
    /\ punctuationIssues = Ingest(OfCategory(batch, "punct"))
    /\ euphonyImprovements = Ingest(OfCategory(batch, "euphony"))
    /\ contentAnalysis = null
    /\ stats = [totalWords |-> CountWords(BodyText(doc)),
                errorCount |-> Len(corrections),
                accuracy |-> Accuracy(CountWords(BodyText(doc)), Len(corrections))]
    /\ InitUi
    /\ runs = <<>>
    /\ last = NoCall

NextStore == HandleReplace \/ DismissSuggestion

SpecStore == InitAnalysed /\ [][NextStore]_vars

\* ------------------------------------------------------------------------
\* One anchor flagged at several places (specification SpecSameAnchor)
\* ------------------------------------------------------------------------

\* The most suggestions in the store, all lists together.
MaxSameAnchor == 2

\* What the service may flag in "x y x": x at index 0, x at index 2, "X "
\* without position, y at index 1.
SameAnchorItems ==
  { Entry(Tx, Tz, Number(0)),
    Entry(Tx, Tz, Number(2)),
    Entry(TXsp, Tz, undefined),
    Entry(Ty, Tzz, Number(1)) }

SameAnchorBatches ==
  UNION {[1..n -> [type : Categories, item : SameAnchorItems]] :
           n \in 0..MaxSameAnchor}

\* The state an analysis of "x y x" leaves behind, with or without its
\* highlights.
InitSameAnchor ==
  \E batch \in SameAnchorBatches, shape \in {"null", "detected"} :
    /\ shape = "null" => OfCategory(batch, "mixing") = <<>>
    /\ doc \in { [i \in 1..5 |-> [ch |-> <<"x", " ", "y", " ", "x">>[i],
                                   hl |-> "#fee2e2"]],
                 PlainCells(<<"x", " ", "y", " ", "x">>) }
    /\ corrections = Ingest(OfCategory(batch, "spelling"))
    /\ toneSuggestions = Ingest(OfCategory(batch, "tone"))
    /\ styleSuggestions = Ingest(OfCategory(batch, "style"))
    /\ languageStyleMixing = MixingOf(shape, OfCategory(batch, "mixing"))
    /\ punctuationIssues = Ingest(OfCategory(batch, "punct"))
    /\ euphonyImprovements = Ingest(OfCategory(batch, "euphony"))
    /\ contentAnalysis = null
    /\ stats = [totalWords |-> CountWords(BodyText(doc)),
                errorCount |-> Len(corrections),
                accuracy |-> Accuracy(CountWords(BodyText(doc)), Len(corrections))]
    /\ InitUi
    /\ runs = <<>>
    /\ last = NoCall

SpecSameAnchor == InitSameAnchor /\ [][NextStore]_vars

\* ------------------------------------------------------------------------
\* App.tsx: the analysis run, checkSpelling (specification Spec)
\* ------------------------------------------------------------------------

\* The clicks on the check button explored in one behaviour.
MaxRuns == 1

\* cleanWordText: \r\n and \r become \n.
RECURSIVE cleanWordText(_)
cleanWordText(t) ==
  IF t = <<>> THEN <<>>
  ELSE IF Head(t) = "\r"
       THEN IF Len(t) > 1 /\ t[2] = "\n"
            THEN cleanWordText(Tail(t))
            ELSE <<"\n">> \o cleanWordText(Tail(t))
       ELSE <<Head(t)>> \o cleanWordText(Tail(t))

\* getTextFromWord: the selection when it is not empty, else the body; ''
\* when the host fails.
getTextFromWord(d, selection, fail) ==
  IF fail # "none" THEN <<>>
  ELSE IF selection # <<>> /\ Len(Trim(selection)) > 0
       THEN cleanWordText(selection)
       ELSE cleanWordText(BodyText(d))

\* What the user may have selected: nothing, or one token.
Selections(d) ==
  {<<>>} \cup {SubSeq(BodyText(d), getTextRanges(d)[i][1], getTextRanges(d)[i][2]) :
             i \in DOMAIN getTextRanges(d)}

\* The outcomes of callGeminiJson: it throws (network or HTTP error), it
\* returns null (no text, or text that does not parse), or it returns the
\* parsed object.
Outcomes == {"error", "null", "ok"}

\* The parsed objects the service returns to the main prompt.
MainResults ==
  { [spellingErrors |-> <<Entry(Ty, Tzz, Number(4)), Entry(Tx, Tz, Number(0))>>,
     punctuationIssues |-> <<Entry(Txy, Tz, undefined)>>,
     euphonyImprovements |-> <<Entry(Ty, Tzz, Number(4))>>,
     mixingShape |-> "detected",
     mixingCorrections |-> <<Entry(TXsp, Tz, undefined)>>],
    [spellingErrors |-> <<>>,
     punctuationIssues |-> <<>>,
     euphonyImprovements |-> <<Entry(Tx, Tz, Number(0))>>,
     mixingShape |-> "null",
     mixingCorrections |-> <<>>] }

\* The toneConversions and styleConversions the service returns.
ToneResults == { <<Entry(TXsp, Tz, undefined)>> }
StyleResults == { <<Entry(Tx, Tz, Number(0))>> }

ContentResults == { [contentType |-> "note"] }

MsgNeedKey == [text |-> "enter the API key first", type |-> "error"]
MsgNeedText == [text |-> "select text or place the cursor", type |-> "error"]
MsgServiceError == [text |-> "service error", type |-> "error"]

\* A run that has just been started by a click.
NewRun(tone, style) ==
  [pc |-> "read", text |-> <<>>, tone |-> tone, style |-> style,
   allSpelling |-> <<>>, allTone |-> <<>>, allStyle |-> <<>>,
   requests |-> <<>>, errors |-> 0, failed |-> "none",
   ingested |-> {}, highlighted |-> {}]

\* A plausible slip: the tone and style requests go out whatever is selected.
NextStep_always(run, after) ==
  IF after = "main" THEN "tone"
  ELSE IF after = "tone" THEN "style"
  ELSE "content"

\* The pipeline step whose request follows the given step (App.tsx 296-318).
NextStep(run, after) ==
  IF after = "main" /\ run.tone # "" THEN "tone"
  ELSE IF after \in {"main", "tone"} /\ run.style # "none" THEN "style"
  ELSE "content"

\* The request of a step goes out: setLoadingText, then fetch.
IssueRequest(r, step) ==
  /\ loadingText' = step
  /\ runs' = [runs EXCEPT ![r].pc = step, ![r].requests = Append(@, step)]

\* A plausible slip: report the failure and go on as after an empty answer.
RunFailed_continue(r, step) ==
  /\ message' = MsgServiceError
  /\ runs' = [runs EXCEPT ![r].pc = CASE step = "main" -> "delay1"
                                      [] step = "tone" -> "delay2"
                                      [] step = "style" -> "delay3"
                                      [] OTHER -> "highlight",
                          ![r].errors = @ + 1,
                          ![r].failed = step]
  /\ UNCHANGED <<isLoading, loadingText, store>>

\* A plausible slip: drop what the run ingested when it fails.
RunFailed_rollback(r, step) ==
  /\ message' = MsgServiceError
  /\ isLoading' = FALSE
  /\ loadingText' = ""
  /\ runs' = [runs EXCEPT ![r].pc = "exit", ![r].errors = @ + 1,
                          ![r].failed = step]
  /\ corrections' = <<>>
  /\ punctuationIssues' = <<>>
  /\ euphonyImprovements' = <<>>
  /\ languageStyleMixing' = null
  /\ UNCHANGED <<toneSuggestions, styleSuggestions, contentAnalysis, stats>>

\* A plausible slip: the running state is cleared at the end of the try
\* block only, so a failed run keeps it.
RunFailed_noFinally(r, step) ==
  /\ message' = MsgServiceError
  /\ runs' = [runs EXCEPT ![r].pc = "exit", ![r].errors = @ + 1,
                          ![r].failed = step]
  /\ UNCHANGED <<isLoading, loadingText, store>>

\* catch (error) { showMessage(...) } finally { setIsLoading(false);
\* setLoadingText('') }, entered from the request of `step`.
RunFailed(r, step) ==
  /\ message' = MsgServiceError
  /\ isLoading' = FALSE
  /\ loadingText' = ""
  /\ runs' = [runs EXCEPT ![r].pc = "exit", ![r].errors = @ + 1,
                          ![r].failed = step]
  /\ UNCHANGED store

\* The trace record of a pipeline step.
StepRecord(op, r, outcome) == [op |-> op, n |-> last.n, run |-> r, outcome |-> outcome]

\* The trace record of a step that starts or ends a document transaction of
\* the run, with the state before it.
StepRecordPre(op, r, outcome) ==
  [op |-> op, n |-> last.n, run |-> r, outcome |-> outcome, pre |-> Snapshot]

\* A plausible slip: the tone and style lists are left for the later steps
\* to overwrite.
ResetStore_mainOnly ==
  /\ corrections' = <<>>
  /\ languageStyleMixing' = null
  /\ punctuationIssues' = <<>>
  /\ euphonyImprovements' = <<>>
  /\ contentAnalysis' = null
  /\ stats' = [totalWords |-> 0, errorCount |-> 0, accuracy |-> 100]
  /\ UNCHANGED <<toneSuggestions, styleSuggestions>>

\* "Reset states": every list, the mixing group, the content analysis and
\* the stats go back to their initial values.
ResetStore ==
  /\ corrections' = <<>>
  /\ toneSuggestions' = <<>>
  /\ styleSuggestions' = <<>>
  /\ languageStyleMixing' = null
  /\ punctuationIssues' = <<>>
  /\ euphonyImprovements' = <<>>
  /\ contentAnalysis' = null
  /\ stats' = [totalWords |-> 0, errorCount |-> 0, accuracy |-> 100]

\* checkSpelling is called by a click on the check button, which is disabled
\* while isLoading; at most `limit` clicks are explored.
Click(limit) ==
  \E apiKey \in {"", "key"}, selectedTone \in {"", "formal"},
     selectedStyle \in {"none", "sadhu"} :
    /\ ~isLoading
    /\ Len(runs) < limit
    /\ IF apiKey = ""
       THEN /\ message' = MsgNeedKey
            /\ activeModal' = "settings"
            /\ runs' = Append(runs, [NewRun(selectedTone, selectedStyle)
                                       EXCEPT !.pc = "exit"])
       ELSE /\ runs' = Append(runs, NewRun(selectedTone, selectedStyle))
            /\ UNCHANGED <<message, activeModal>>
    /\ last' = StepRecord("click", Len(runs) + 1, apiKey)
    /\ UNCHANGED <<doc, store, isLoading, loadingText, hover>>

\* A click on the check button.
ClickCheck == Click(MaxRuns)

\* getTextFromWord resolves; with text the run enters its running state,
\* resets the store and starts clearHighlights.
ReadText ==
  \E r \in DOMAIN runs, fail \in {"none", "load"} :
    \E selection \in Selections(doc) :
      \E text \in {getTextFromWord(doc, selection, fail)} :
        /\ runs[r].pc = "read"
        /\ IF Len(Trim(text)) = 0
           THEN /\ message' = MsgNeedText
                /\ runs' = [runs EXCEPT ![r].pc = "exit"]
                /\ UNCHANGED <<store, isLoading, loadingText>>
           ELSE /\ isLoading' = TRUE
                /\ loadingText' = "analysing"
                /\ ResetStore
                /\ runs' = [runs EXCEPT ![r].pc = "clear", ![r].text = text]
                /\ UNCHANGED message
        /\ last' = StepRecordPre("read", r, fail)
        /\ UNCHANGED <<doc, activeModal, hover>>

\* clearHighlights resolves and the main request goes out.
ClearDone ==
  \E r \in DOMAIN runs, fail \in {"none", "flush"} :
    /\ runs[r].pc = "clear"
    /\ doc' = clearHighlights(doc, fail)
    /\ IssueRequest(r, "main")
    /\ last' = StepRecordPre("clear", r, fail)
    /\ UNCHANGED <<store, isLoading, message, activeModal, hover>>

\* The entries of a list, as a set.
EntrySet(list) == {list[i] : i \in DOMAIN list}

\* The entries performMainCheck puts into the store from a parsed result.
IngestedByMain(result) ==
  EntrySet(Ingest(result.spellingErrors))
    \cup EntrySet(Ingest(result.punctuationIssues))
    \cup EntrySet(Ingest(result.euphonyImprovements))
    \cup (IF MixingOf(result.mixingShape, result.mixingCorrections) = null
          THEN {}
          ELSE EntrySet(MixingOf(result.mixingShape,
                                 result.mixingCorrections).corrections))

\* The entries batchHighlightAll passes on: spelling, tone and style.
BatchEntries(run) ==
  EntrySet(run.allSpelling) \cup EntrySet(run.allTone) \cup EntrySet(run.allStyle)

\* performMainCheck with a parsed result: the four lists of the main check
\* and the stats are set from it.
SetMainResults(result, text) ==
  /\ corrections' = Ingest(result.spellingErrors)
  /\ punctuationIssues' = Ingest(result.punctuationIssues)
  /\ euphonyImprovements' = Ingest(result.euphonyImprovements)
  /\ languageStyleMixing' = MixingOf(result.mixingShape, result.mixingCorrections)
  /\ stats' = StatsOf(text, Ingest(result.spellingErrors))
  /\ UNCHANGED <<toneSuggestions, styleSuggestions, contentAnalysis>>

\* performMainCheck: the response to the main request arrives.
MainResponse ==
  \E r \in DOMAIN runs, outcome \in Outcomes, result \in MainResults :
    /\ runs[r].pc = "main"
    /\ CASE outcome = "error" ->
              /\ RunFailed(r, "main")
         [] outcome = "null" ->
              /\ runs' = [runs EXCEPT ![r].pc = "delay1"]
              /\ UNCHANGED <<store, isLoading, loadingText, message>>
         [] outcome = "ok" ->
              /\ SetMainResults(result, runs[r].text)
              /\ runs' = [runs EXCEPT ![r].pc = "delay1",
                                      ![r].allSpelling = Ingest(result.spellingErrors),
                                      ![r].ingested = @ \cup IngestedByMain(result)]
              /\ UNCHANGED <<isLoading, loadingText, message>>
    /\ last' = StepRecord("main", r, outcome)
    /\ UNCHANGED <<doc, activeModal, hover>>

\* The cool-down after a step elapses and the next request goes out.
CoolDown ==
  \E r \in DOMAIN runs :
    /\ runs[r].pc \in {"delay1", "delay2", "delay3"}
    /\ IssueRequest(r, NextStep(runs[r],
                                CASE runs[r].pc = "delay1" -> "main"
                                  [] runs[r].pc = "delay2" -> "tone"
                                  [] runs[r].pc = "delay3" -> "style"))
    /\ last' = StepRecord("delay", r, runs[r].pc)
    /\ UNCHANGED <<doc, store, isLoading, message, activeModal, hover>>

\* A plausible slip: the tone conversions go to the spelling list.
SetToneSuggestions_intoCorrections(list) ==
  /\ corrections' = list
  /\ UNCHANGED <<toneSuggestions, styleSuggestions, languageStyleMixing,
                 punctuationIssues, euphonyImprovements, contentAnalysis, stats>>

\* setToneSuggestions(toneConversions)
SetToneSuggestions(list) ==
  /\ toneSuggestions' = list
  /\ UNCHANGED <<corrections, styleSuggestions, languageStyleMixing,
                 punctuationIssues, euphonyImprovements, contentAnalysis, stats>>

\* performToneCheck: the response to the tone request arrives.
ToneResponse ==
  \E r \in DOMAIN runs, outcome \in Outcomes, result \in ToneResults :
    /\ runs[r].pc = "tone"
    /\ CASE outcome = "error" ->
              /\ RunFailed(r, "tone")
         [] outcome = "null" ->
              /\ runs' = [runs EXCEPT ![r].pc = "delay2"]
              /\ UNCHANGED <<store, isLoading, loadingText, message>>
         [] outcome = "ok" ->
              /\ SetToneSuggestions(Ingest(result))
              /\ runs' = [runs EXCEPT ![r].pc = "delay2",
                                      ![r].allTone = Ingest(result),
                                      ![r].ingested = @ \cup EntrySet(Ingest(result))]
              /\ UNCHANGED <<isLoading, loadingText, message>>
    /\ last' = StepRecord("tone", r, outcome)
    /\ UNCHANGED <<doc, activeModal, hover>>

\* setStyleSuggestions(styleConversions)
SetStyleSuggestions(list) ==
  /\ styleSuggestions' = list
  /\ UNCHANGED <<corrections, toneSuggestions, languageStyleMixing,
                 punctuationIssues, euphonyImprovements, contentAnalysis, stats>>

\* performStyleCheck: the response to the style request arrives.
StyleResponse ==
  \E r \in DOMAIN runs, outcome \in Outcomes, result \in StyleResults :
    /\ runs[r].pc = "style"
    /\ CASE outcome = "error" ->
              /\ RunFailed(r, "style")
         [] outcome = "null" ->
              /\ runs' = [runs EXCEPT ![r].pc = "delay3"]
              /\ UNCHANGED <<store, isLoading, loadingText, message>>
         [] outcome = "ok" ->
              /\ SetStyleSuggestions(Ingest(result))
              /\ runs' = [runs EXCEPT ![r].pc = "delay3",
                                      ![r].allStyle = Ingest(result),
                                      ![r].ingested = @ \cup EntrySet(Ingest(result))]
              /\ UNCHANGED <<isLoading, loadingText, message>>
    /\ last' = StepRecord("style", r, outcome)
    /\ UNCHANGED <<doc, activeModal, hover>>

\* analyzeContent: the response to the summary request arrives; then the
\* batch highlight starts.
ContentResponse ==
  \E r \in DOMAIN runs, outcome \in Outcomes, result \in ContentResults :
    /\ runs[r].pc = "content"
    /\ CASE outcome = "error" ->
              /\ RunFailed(r, "content")
         [] outcome = "null" ->
              /\ loadingText' = "highlight"
              /\ runs' = [runs EXCEPT ![r].pc = "highlight",
                                      ![r].highlighted = BatchEntries(runs[r])]
              /\ UNCHANGED <<store, isLoading, message>>
         [] outcome = "ok" ->
              /\ contentAnalysis' = result
              /\ loadingText' = "highlight"
              /\ runs' = [runs EXCEPT ![r].pc = "highlight",
                                      ![r].highlighted = BatchEntries(runs[r])]
              /\ UNCHANGED <<corrections, toneSuggestions, styleSuggestions,
                             languageStyleMixing, punctuationIssues,
                             euphonyImprovements, stats, isLoading, message>>
    /\ last' = StepRecord("content", r, outcome)
    /\ UNCHANGED <<doc, activeModal, hover>>

\* The items batchHighlightAll collects: spelling, tone, style, each with
\* its colour.
BatchItems(run) ==
  [i \in DOMAIN run.allSpelling |-> [e |-> run.allSpelling[i], color |-> "#fee2e2"]]
    \o [i \in DOMAIN run.allTone |-> [e |-> run.allTone[i], color |-> "#fef3c7"]]
    \o [i \in DOMAIN run.allStyle |-> [e |-> run.allStyle[i], color |-> "#ccfbf1"]]

\* highlightMultipleInWord(items): each item is highlighted as
\* highlightInWord does, in order; `next` is the document after the first
\* item.
RECURSIVE highlightMultipleInWord(_, _, _)
highlightMultipleInWord(d, items, fail) ==
  IF items = <<>> THEN d
  ELSE CHOOSE out \in
         { highlightMultipleInWord(next, Tail(items), fail) :
             next \in { highlightInWord(d, Head(items).e.text, Head(items).color,
                                        Head(items).e.position, fail).doc } } : TRUE

\* A plausible slip: a failure of the batch highlight reaches the catch of
\* checkSpelling.
BatchHighlightDone_throws ==
  \E r \in DOMAIN runs, fail \in {"none", "flush"} :
    /\ runs[r].pc = "highlight"
    /\ doc' = highlightMultipleInWord(doc, BatchItems(runs[r]), fail)
    /\ IF fail = "none"
       THEN /\ isLoading' = FALSE
            /\ loadingText' = ""
            /\ runs' = [runs EXCEPT ![r].pc = "exit"]
            /\ UNCHANGED <<store, message>>
       ELSE RunFailed(r, "highlight")
    /\ last' = StepRecord("highlight", r, fail)
    /\ UNCHANGED <<activeModal, hover>>

\* batchHighlightAll resolves; finally the run leaves its running state.
BatchHighlightDone ==
  \E r \in DOMAIN runs, fail \in {"none", "flush"} :
    /\ runs[r].pc = "highlight"
    /\ doc' = highlightMultipleInWord(doc, BatchItems(runs[r]), fail)
    /\ isLoading' = FALSE
    /\ loadingText' = ""
    /\ runs' = [runs EXCEPT ![r].pc = "exit"]
    /\ last' = StepRecord("highlight", r, fail)
    /\ UNCHANGED <<store, message, activeModal, hover>>

\* The timer of showMessage fires: setMessage(null).
MessageTimeout ==
  /\ message # null
  /\ message' = null
  /\ last' = StepRecord("timeout", 0, "none")
  /\ UNCHANGED <<doc, store, isLoading, loadingText, activeModal, runs, hover>>

\* The documents a session starts with: "x y", and a blank one.
SessionDocs == { PlainCells(<<"x", " ", "y">>), PlainCells(<<" ">>) }

Init ==
  /\ doc \in SessionDocs
  /\ InitStore
  /\ InitUi
  /\ runs = <<>>
  /\ last = NoCall

Next ==
  \/ ClickCheck
  \/ ReadText
  \/ ClearDone
  \/ MainResponse
  \/ CoolDown
  \/ ToneResponse
  \/ StyleResponse
  \/ ContentResponse
  \/ BatchHighlightDone
  \/ MessageTimeout
  \/ HandleReplace
  \/ DismissSuggestion

Spec == Init /\ [][Next]_vars

\* ------------------------------------------------------------------------
\* A run over what an earlier run left behind (specification SpecRerun)
\* ------------------------------------------------------------------------

\* The document with every cell highlighted in the given colour.
MarkedCells(s, color) == [i \in DOMAIN s |-> [ch |-> s[i], hl |-> color]]

\* The documents an earlier run leaves behind: "x y" with its highlights,
\* and the same text with the highlights removed by hand.
RerunDocs == { MarkedCells(<<"x", " ", "y">>, "#fee2e2"),
               PlainCells(<<"x", " ", "y">>) }

\* The state in which an earlier run ended: its results are in the store and
\* its highlights in the document.
InitEarlierRun ==
  \E result \in MainResults, tone \in {<<>>} \cup ToneResults,
     style \in {<<>>} \cup StyleResults, content \in {null} \cup ContentResults :
    /\ doc \in RerunDocs
    /\ corrections = Ingest(result.spellingErrors)
    /\ punctuationIssues = Ingest(result.punctuationIssues)
    /\ euphonyImprovements = Ingest(result.euphonyImprovements)
    /\ languageStyleMixing = MixingOf(result.mixingShape, result.mixingCorrections)
    /\ toneSuggestions = Ingest(tone)
    /\ styleSuggestions = Ingest(style)
    /\ contentAnalysis = content
    /\ stats = [totalWords |-> CountWords(BodyText(doc)),
                errorCount |-> Len(corrections),
                accuracy |-> Accuracy(CountWords(BodyText(doc)), Len(corrections))]
    /\ InitUi
    /\ runs = <<>>
    /\ last = NoCall

NextRerun ==
  \/ ClickCheck
  \/ ReadText
  \/ ClearDone
  \/ MainResponse
  \/ CoolDown
  \/ ToneResponse
  \/ StyleResponse
  \/ ContentResponse
  \/ BatchHighlightDone
  \/ MessageTimeout

SpecRerun == InitEarlierRun /\ [][NextRerun]_vars

\* The call a run is waiting for settles: a host call (clearHighlights, the
\* batch highlight), one of the four service calls, or a cool-down timer.
Settle ==
  \/ ClearDone
  \/ MainResponse
  \/ CoolDown
  \/ ToneResponse
  \/ StyleResponse
  \/ ContentResponse
  \/ BatchHighlightDone

\* Every awaited call eventually settles.
AwaitsSettle == WF_vars(Settle)

\* The runs of SpecRerun, with every awaited call settling.
SpecRerunFair == SpecRerun /\ AwaitsSettle

\* ------------------------------------------------------------------------
\* Two clicks on the check button (specification SpecClicks)
\* ------------------------------------------------------------------------

\* The clicks on the check button explored in one behaviour.
MaxClicks == 2

\* A click on the check button, the first or the second.
ClickCheckAgain == Click(MaxClicks)

NextClicks ==
  \/ ClickCheckAgain
  \/ ReadText
  \/ ClearDone
  \/ MainResponse
  \/ CoolDown
  \/ ToneResponse
  \/ StyleResponse
  \/ ContentResponse
  \/ BatchHighlightDone
  \/ MessageTimeout

\* The check button has been clicked once, with a key set and neither tone
\* nor style selected, over the document "x y"; getTextFromWord has not
\* resolved yet.
InitFirstClick ==
  /\ doc = PlainCells(<<"x", " ", "y">>)
  /\ InitStore
  /\ InitUi
  /\ runs = <<NewRun("", "none")>>
  /\ last = [op |-> "click", n |-> 0, run |-> 1, outcome |-> "key"]

SpecClicks == InitFirstClick /\ [][NextClicks]_vars

\* ------------------------------------------------------------------------
\* The stats of the main check (specification SpecStats)
\* ------------------------------------------------------------------------

\* The longest analysed text, in words, and the most spelling entries.
MaxWords == 50
MaxErrors == 17

\* A text of n words, each followed by the separator.
RECURSIVE WordsText(_, _)
WordsText(n, sep) == IF n = 0 THEN <<>> ELSE <<"x">> \o sep \o WordsText(n - 1, sep)

\* The analysed text and the spelling entries of the response, before the
\* stats are set.
InitStats ==
  \E n \in 0..MaxWords, k \in 0..MaxErrors, sep \in {<<" ">>, <<"\n", " ">>} :
    /\ doc = PlainCells(<<>>)
    /\ InitStore
    /\ InitUi
    /\ runs = <<>>
    /\ last = [op |-> "text", n |-> 0, words |-> n,
               text |-> WordsText(n, sep),
               allSpelling |-> [i \in 1..k |-> Entry(Tx, Tz, undefined)]]

\* setStats({ totalWords, errorCount, accuracy })
SetStats ==
  /\ last.op = "text"
  /\ stats' = StatsOf(last.text, last.allSpelling)
  /\ last' = [last EXCEPT !.op = "setStats"]
  /\ UNCHANGED <<doc, corrections, toneSuggestions, styleSuggestions,
                 languageStyleMixing, punctuationIssues, euphonyImprovements,
                 contentAnalysis, ui, runs, hover>>

NextStats == SetStats

SpecStats == InitStats /\ [][NextStats]_vars

\* ------------------------------------------------------------------------
\* normalize on its own (specification SpecNormalize)
\* ------------------------------------------------------------------------

\* The longest string normalize is applied to.
MaxLen == 3

\* A letter in both cases, and the four kinds of white space.
Alphabet == {"x", "X", " ", "\t", "\r", "\n"}

Strings == UNION {[1..n -> Alphabet] : n \in 0..MaxLen}

\* Two strings, before normalize is applied to them.
InitNormalize ==
  \E x \in Strings, y \in Strings :
    /\ doc = PlainCells(<<>>)
    /\ InitStore
    /\ InitUi
    /\ runs = <<>>
    /\ last = [op |-> "strings", n |-> 0, x |-> x, y |-> y]

\* normalize(x), normalize(y) and normalize(normalize(x))
NormalizeCall ==
  /\ last.op = "strings"
  /\ last' = [op |-> "normalize", n |-> 0, x |-> last.x, y |-> last.y,
              nx |-> normalize(last.x), ny |-> normalize(last.y),
              nnx |-> normalize(normalize(last.x))]
  /\ UNCHANGED <<doc, store, ui, runs, hover>>

NextNormalize == NormalizeCall

SpecNormalize == InitNormalize /\ [][NextNormalize]_vars

\* ------------------------------------------------------------------------
\* Ingest on its own (specification SpecIngest)
\* ------------------------------------------------------------------------

\* The most items in one list of a response.
MaxBatch == 3

\* The items of a response: two anchors, with an index, without a position,
\* or with the index sent as a string.
ResponseItems ==
  { Entry(t, Tz, p) : t \in {Tx, Ty},
                      p \in {undefined, Number(0), Number(1),
                             [t |-> "string", v |-> 1]} }

BatchLists == UNION {[1..n -> ResponseItems] : n \in 0..MaxBatch}

\* The corrections of the mixing group of a response.
MixingLists ==
  { <<>>,
    <<Entry(Ty, Tz, Number(1)), Entry(Tx, Tz, undefined), Entry(Tx, Tz, Number(0))>>,
    <<Entry(Tx, Tz, Number(1)), Entry(Ty, Tz, Number(1))>> }

\* An entry an overlapping run has put into a list.
EarlierEntry == Entry(Tzz, Tz, Number(0))

\* A parsed response has arrived; the lists are empty, or hold what an
\* overlapping run has put there.
InitIngest ==
  \E items \in BatchLists, mixing \in MixingLists, shape \in MixingShapes,
     earlier \in {<<>>, <<EarlierEntry>>} :
    /\ shape \in {"null", "bare"} => mixing = <<>>
    /\ doc = PlainCells(<<"x", " ", "y">>)
    /\ corrections = earlier
    /\ toneSuggestions = earlier
    /\ styleSuggestions = earlier
    /\ punctuationIssues = earlier
    /\ euphonyImprovements = earlier
    /\ languageStyleMixing = IF earlier = <<>> THEN null
                             ELSE MixingOf("detected", earlier)
    /\ contentAnalysis = null
    /\ stats = [totalWords |-> 0, errorCount |-> 0, accuracy |-> 100]
    /\ InitUi
    /\ runs = <<>>
    /\ last = [op |-> "response", n |-> 0, items |-> items, shape |-> shape,
               mixing |-> mixing, pre |-> Snapshot]

\* performMainCheck ingests the response.
IngestMain ==
  /\ last.op = "response"
  /\ SetMainResults([spellingErrors |-> last.items,
                     punctuationIssues |-> last.items,
                     euphonyImprovements |-> last.items,
                     mixingShape |-> last.shape,
                     mixingCorrections |-> last.mixing], BodyText(doc))
  /\ last' = [last EXCEPT !.op = "main"]
  /\ UNCHANGED <<doc, ui, runs, hover>>

\* performToneCheck ingests the response.
IngestTone ==
  /\ last.op = "response"
  /\ SetToneSuggestions(Ingest(last.items))
  /\ last' = [last EXCEPT !.op = "tone"]
  /\ UNCHANGED <<doc, ui, runs, hover>>

\* performStyleCheck ingests the response.
IngestStyle ==
  /\ last.op = "response"
  /\ SetStyleSuggestions(Ingest(last.items))
  /\ last' = [last EXCEPT !.op = "style"]
  /\ UNCHANGED <<doc, ui, runs, hover>>

NextIngest == IngestMain \/ IngestTone \/ IngestStyle

SpecIngest == InitIngest /\ [][NextIngest]_vars

\* ------------------------------------------------------------------------
\* Vocabulary of the properties
\* ------------------------------------------------------------------------

\* The first characters of the white-space separated tokens of t.
TokenStarts(t) ==
  {i \in 1..Len(t) : t[i] \notin WhiteSpace /\ (i = 1 \/ t[i - 1] \in WhiteSpace)}

TokenCount(t) == Cardinality(TokenStarts(t))

\* The range of the token with 0-based index p.
TokenRange(t, p) ==
  LET s == CHOOSE i \in TokenStarts(t) :
             Cardinality({j \in TokenStarts(t) : j < i}) = p
      e == CHOOSE k \in s..Len(t) :
             /\ \A j \in s..k : t[j] \notin WhiteSpace
             /\ (k = Len(t) \/ t[k + 1] \in WhiteSpace)
  IN <<s, e>>

\* The live occurrences of an anchor: ranges equal to it up to case and
\* white space, whole tokens only when the anchor is a single token.
Occurrences(t, anchor) ==
  IF Trim(anchor) = <<>> THEN {}
  ELSE {r \in (1..Len(t)) \X (1..Len(t)) :
          /\ r[1] <= r[2]
          /\ IsMatch(t, r[1], r[2], Trim(anchor), ~HasSpace(Trim(anchor)))}

Overlap(r, q) == r[1] <= q[2] /\ q[1] <= r[2]

RangeSet(ranges) == {ranges[i] : i \in DOMAIN ranges}

\* Document d with each range of R replaced by newText without highlight,
\* read left to right from cell i.
RECURSIVE Rewritten(_, _, _, _)
Rewritten(d, R, newText, i) ==
  IF i > Len(d) THEN <<>>
  ELSE IF \E r \in R : r[1] = i
       THEN LET r == CHOOSE q \in R : q[1] = i
            IN PlainCells(newText) \o Rewritten(d, R, newText, r[2] + 1)
       ELSE <<d[i]>> \o Rewritten(d, R, newText, i + 1)

\* Document d with the cells of the ranges of R marked with color.
Marked(d, R, color) ==
  [i \in DOMAIN d |->
     IF \E r \in R : i \in r[1]..r[2]
     THEN [ch |-> d[i].ch, hl |-> color] ELSE d[i]]

\* The call recorded in `last` touched the document through utils/word.ts.
IsWordCall == last.op \in {"highlight", "replace"}

\* The document is what the recorded call makes of the ranges R.
ActedOnExactly(R) ==
  /\ RangeSet(last.ranges) = R
  /\ Len(last.ranges) = Cardinality(R)
  /\ last.op = "replace" =>
       /\ last.success
       /\ doc = Rewritten(last.pre.doc, R, last.newText, 1)
  /\ last.op = "highlight" => doc = Marked(last.pre.doc, R, last.color)

\* The suggestion is a single token with an in-bounds position.
SingleTokenInBounds ==
  /\ ~HasSpace(Trim(last.text))
  /\ IsNumber(last.position)
  /\ IsInteger(last.position)
  /\ 0 <= last.position.v
  /\ last.position.v < TokenCount(BodyText(last.pre.doc))

\* C2 as stated: whenever the trimmed anchor has no white space and the
\* position is within the N tokens, highlight and replace act on exactly the
\* token at that index.
C2_AsStated ==
  (IsWordCall /\ last.fail = "none" /\ SingleTokenInBounds) =>
    ActedOnExactly({TokenRange(BodyText(last.pre.doc), last.position.v)})

\* C2 (amended): for a non-empty trimmed anchor without white space and a
\* position 0 <= p < N, highlight and replace act on exactly the token range
\* at index p and on no other range, whatever that token's live text is.
C2_PositionFastPath ==
  (IsWordCall /\ last.fail = "none" /\ SingleTokenInBounds
     /\ Trim(last.text) # <<>>) =>
    ActedOnExactly({TokenRange(BodyText(last.pre.doc), last.position.v)})

\* A replace taken by the fast path on a token whose live text differs from
\* the anchor.
C2_Witness ==
  /\ last.op = "replace"
  /\ last.fail = "none"
  /\ SingleTokenInBounds
  /\ Trim(last.text) # <<>>
  /\ LET t == BodyText(last.pre.doc)
         r == TokenRange(t, last.position.v)
     IN /\ SearchKey(SubSeq(t, r[1], r[2])) # SearchKey(last.text)
        /\ Occurrences(t, last.text) # {}
        /\ doc # last.pre.doc

\* The position is absent or beyond the last token, or the anchor is a phrase.
FallbackCase ==
  \/ ~IsNumber(last.position)
  \/ (IsNumber(last.position)
        /\ last.position.v >= TokenCount(BodyText(last.pre.doc)))
  \/ HasSpace(Trim(last.text))

\* C3: in the fallback case the operation acts on every live occurrence of
\* the anchor (case- and white-space-insensitive, whole word for a single
\* token), and with no occurrence replace returns false and the document is
\* untouched.
C3_FallbackSearch ==
  (IsWordCall /\ last.fail = "none" /\ FallbackCase) =>
    LET occ == Occurrences(BodyText(last.pre.doc), last.text) IN
    /\ RangeSet(last.ranges) \subseteq occ
    /\ \A o \in occ : \E r \in RangeSet(last.ranges) : Overlap(o, r)
    /\ occ # {} => ActedOnExactly(RangeSet(last.ranges))
    /\ occ = {} =>
         /\ doc = last.pre.doc
         /\ last.op = "replace" => ~last.success

\* A fallback replace that rewrote two occurrences at once.
C3_Witness ==
  /\ last.op = "replace"
  /\ last.fail = "none"
  /\ FallbackCase
  /\ Len(last.ranges) >= 2
  /\ doc # last.pre.doc

\* The position of a single token is a number below the token count that
\* is not an integer: the fast path is entered and finds no token there.
IndexNamesNoToken ==
  /\ ~HasSpace(Trim(last.text))
  /\ IsNumber(last.position)
  /\ ~IsInteger(last.position)
  /\ 0 <= last.position.v
  /\ last.position.v < TokenCount(BodyText(last.pre.doc))

\* The Locator resolves something: a token by index, or an occurrence when
\* the search is reached.
Locatable ==
  /\ Trim(last.text) # <<>>
  /\ \/ SingleTokenInBounds
     \/ /\ ~IndexNamesNoToken
        /\ Occurrences(BodyText(last.pre.doc), last.text) # {}

\* C6: replaceInWord returns true exactly when it resolved and mutated at
\* least one range; it returns false, leaving the document alone, when the
\* Locator finds nothing, in particular for an empty or blank anchor.
C6_ReplaceResult ==
  last.op = "replace" =>
    /\ last.success <=> Len(last.ranges) > 0
    /\ last.success =>
         doc = Rewritten(last.pre.doc, RangeSet(last.ranges), last.newText, 1)
    /\ ~last.success => doc = last.pre.doc
    /\ ~Locatable => ~last.success
    /\ (Locatable /\ last.fail = "none") => last.success

\* A replace that returned false for a blank anchor although its position is
\* within the document.
C6_Witness ==
  /\ last.op = "replace"
  /\ last.text = Tblank
  /\ last.fail = "none"
  /\ SingleTokenInBounds
  /\ ~last.success

\* ------------------------------------------------------------------------
\* Properties of the store (specification SpecStore)
\* ------------------------------------------------------------------------

ListCategories == {"spelling", "tone", "style", "punct", "euphony"}

\* The list a snapshot holds for a category.
ListOf(snap, type) ==
  CASE type = "spelling" -> snap.corrections
    [] type = "tone" -> snap.toneSuggestions
    [] type = "style" -> snap.styleSuggestions
    [] type = "punct" -> snap.punctuationIssues
    [] type = "euphony" -> snap.euphonyImprovements

\* The nested corrections of a mixing group; none when there is no group.
MixingCorrections(m) ==
  IF m = null THEN <<>> ELSE IF m.hasCorrections THEN m.corrections ELSE <<>>

\* No entry of the list has the normalized anchor `target`.
NoneMatches(list, target) ==
  \A i \in DOMAIN list : normalize(list[i].text) # target

\* `new` is `old` without some entries, all of them with the normalized
\* anchor `target`; the entries kept are in their previous order.
KeptInOrder(old, new, target) ==
  \E f \in [DOMAIN new -> DOMAIN old] :
    /\ \A i, j \in DOMAIN new : i < j => f[i] < f[j]
    /\ \A i \in DOMAIN new : new[i] = old[f[i]]
    /\ \A k \in DOMAIN old :
         (\A i \in DOMAIN new : f[i] # k) => normalize(old[k].text) = target

\* C1: after a handleReplace whose replaceInWord returned true, no entry
\* whose anchor normalizes to normalize(oldText) remains in any list or in
\* the nested mixing corrections, and every other entry is still present, in
\* its previous order.
C1_CrossCategoryReconciliation ==
  (last.op = "handleReplace" /\ last.success) =>
    LET target == normalize(last.text) IN
    /\ \A type \in ListCategories :
         /\ NoneMatches(ListOf(Snapshot, type), target)
         /\ KeptInOrder(ListOf(last.pre, type), ListOf(Snapshot, type), target)
    /\ NoneMatches(MixingCorrections(languageStyleMixing), target)
    /\ KeptInOrder(MixingCorrections(last.pre.languageStyleMixing),
                   MixingCorrections(languageStyleMixing), target)

\* One accept removed entries of two categories and left another anchor.
C1_Witness ==
  /\ last.op = "handleReplace"
  /\ last.success
  /\ \E t1, t2 \in ListCategories :
       /\ t1 # t2
       /\ Len(ListOf(Snapshot, t1)) < Len(ListOf(last.pre, t1))
       /\ Len(ListOf(Snapshot, t2)) < Len(ListOf(last.pre, t2))
  /\ \E t3 \in ListCategories : ListOf(Snapshot, t3) # <<>>

\* C4: with exactly one spelling suggestion whose position p names a token
\* that is its anchor, accepting it replaces the token at index p with the
\* replacement, leaves the new range unmarked, and empties the spelling list.
C4_EndToEndAccept ==
  (/\ last.op = "handleReplace"
   /\ last.type = "spelling"
   /\ last.fail = "none"
   /\ Len(last.pre.corrections) = 1
   /\ Trim(last.text) # <<>>
   /\ SingleTokenInBounds
   /\ LET t == BodyText(last.pre.doc)
          r == TokenRange(t, last.position.v)
      IN SearchKey(SubSeq(t, r[1], r[2])) = SearchKey(last.text)) =>
    LET r == TokenRange(BodyText(last.pre.doc), last.position.v) IN
    /\ last.success
    /\ doc = Rewritten(last.pre.doc, {r}, last.newText, 1)
    /\ \A i \in r[1]..(r[1] + Len(last.newText) - 1) : doc[i].hl = NoHighlight
    /\ corrections = <<>>

\* The accepted token carried a highlight before it was replaced.
C4_Witness ==
  /\ last.op = "handleReplace"
  /\ last.type = "spelling"
  /\ last.fail = "none"
  /\ Len(last.pre.corrections) = 1
  /\ Trim(last.text) # <<>>
  /\ SingleTokenInBounds
  /\ LET t == BodyText(last.pre.doc)
         r == TokenRange(t, last.position.v)
     IN /\ SearchKey(SubSeq(t, r[1], r[2])) = SearchKey(last.text)
        /\ last.pre.doc[r[1]].hl # NoHighlight
  /\ corrections = <<>>

\* C5: when replaceInWord returns false, every list and the mixing group are
\* as before the call, and the message shown is the 'not found' error.
C5_FailedReplaceKeepsStore ==
  (last.op = "handleReplace" /\ ~last.success) =>
    /\ \A type \in ListCategories : ListOf(Snapshot, type) = ListOf(last.pre, type)
    /\ languageStyleMixing = last.pre.languageStyleMixing
    /\ message = MsgNotFound

\* A replace failed although the store holds an entry with its anchor.
C5_Witness ==
  /\ last.op = "handleReplace"
  /\ ~last.success
  /\ \E type \in ListCategories :
       ~NoneMatches(ListOf(Snapshot, type), normalize(last.text))

\* C7: dismissSuggestion(category, text) removes from the named category
\* every entry whose normalized anchor is normalize(text), keeps its other
\* entries in order, and leaves the other categories, the Stats and the
\* document unchanged.
C7_DismissOneCategory ==
  last.op = "dismiss" =>
    LET target == normalize(last.text) IN
    /\ \A type \in ListCategories :
         IF type = last.type
         THEN /\ NoneMatches(ListOf(Snapshot, type), target)
              /\ KeptInOrder(ListOf(last.pre, type), ListOf(Snapshot, type), target)
         ELSE ListOf(Snapshot, type) = ListOf(last.pre, type)
    /\ IF last.type = "mixing"
       THEN /\ NoneMatches(MixingCorrections(languageStyleMixing), target)
            /\ KeptInOrder(MixingCorrections(last.pre.languageStyleMixing),
                           MixingCorrections(languageStyleMixing), target)
       ELSE languageStyleMixing = last.pre.languageStyleMixing
    /\ stats = last.pre.stats
    /\ doc = last.pre.doc

\* A dismiss removed an entry while another category keeps the same anchor.
C7_Witness ==
  /\ last.op = "dismiss"
  /\ last.type \in ListCategories
  /\ Len(ListOf(Snapshot, last.type)) < Len(ListOf(last.pre, last.type))
  /\ \/ \E type \in ListCategories \ {last.type} :
          ~NoneMatches(ListOf(Snapshot, type), normalize(last.text))
     \/ ~NoneMatches(MixingCorrections(languageStyleMixing), normalize(last.text))

\* C8: dismissing a mixing correction whose anchor matches every nested
\* correction makes the group null; otherwise the group stays, with
\* detected, recommendedStyle and reason unchanged and exactly the
\* corrections that do not match.
C8_DismissMixing ==
  (last.op = "dismiss" /\ last.type = "mixing") =>
    LET target == normalize(last.text)
        before == last.pre.languageStyleMixing
    IN IF \A i \in DOMAIN before.corrections :
            normalize(before.corrections[i].text) = target
       THEN languageStyleMixing = null
       ELSE /\ languageStyleMixing # null
            /\ languageStyleMixing.detected = before.detected
            /\ languageStyleMixing.recommendedStyle = before.recommendedStyle
            /\ languageStyleMixing.reason = before.reason
            /\ languageStyleMixing.hasCorrections
            /\ NoneMatches(languageStyleMixing.corrections, target)
            /\ KeptInOrder(before.corrections, languageStyleMixing.corrections, target)

\* Dismissing the last nested correction made the group null.
C8_Witness ==
  /\ last.op = "dismiss"
  /\ last.type = "mixing"
  /\ Len(last.pre.languageStyleMixing.corrections) = 1
  /\ languageStyleMixing = null

\* ------------------------------------------------------------------------
\* Properties of the analysis run
\* ------------------------------------------------------------------------

ServiceSteps == {"main", "tone", "style", "content"}

\* Run r was waiting for the answer to its tone request and the step that
\* is being taken is the failure of that request.
ToneStepFails(r) ==
  /\ runs[r].pc = "tone"
  /\ runs'[r].failed = "tone"

\* C9: when the tone request of a run fails after its main check, the step
\* that handles the failure returns the run to idle and leaves the spelling,
\* punctuation, euphony and mixing results and the Stats exactly as they were
\* in the store: nothing is rolled back.
C9_ToneFailureKeepsResults ==
  [][\A r \in DOMAIN runs :
       ToneStepFails(r) =>
         /\ corrections' = corrections
         /\ punctuationIssues' = punctuationIssues
         /\ euphonyImprovements' = euphonyImprovements
         /\ languageStyleMixing' = languageStyleMixing
         /\ stats' = stats
         /\ runs'[r].pc = "exit"
         /\ ~isLoading']_vars

\* A run has returned to idle after its tone request failed, and results of
\* all four main categories and the Stats of its main check are in the store.
C9_Witness ==
  \E r \in DOMAIN runs :
    /\ runs[r].failed = "tone"
    /\ runs[r].pc = "exit"
    /\ last.op = "tone"
    /\ ~isLoading
    /\ corrections = runs[r].allSpelling
    /\ corrections # <<>>
    /\ punctuationIssues # <<>>
    /\ euphonyImprovements # <<>>
    /\ languageStyleMixing # null
    /\ stats.totalWords > 0
    /\ stats.errorCount = Len(corrections)

\* C10: a run one of whose service requests failed is idle, the failed
\* request is the last one it issued, and it has surfaced exactly one error
\* message; right after the failure the running flag and the progress text
\* are cleared and the error message is on display.
C10_FailureEndsRun ==
  /\ \A r \in DOMAIN runs :
       runs[r].failed # "none" =>
         /\ runs[r].failed \in ServiceSteps
         /\ runs[r].pc = "exit"
         /\ runs[r].errors = 1
         /\ runs[r].requests # <<>>
         /\ runs[r].requests[Len(runs[r].requests)] = runs[r].failed
  /\ \A r \in DOMAIN runs :
       runs[r].failed = "none" => runs[r].errors = 0
  /\ (last.op \in ServiceSteps /\ last.outcome = "error") =>
       /\ ~isLoading
       /\ loadingText = ""
       /\ message = MsgServiceError

\* The main request of a run with a tone and a style selected failed: the
\* run is idle, it issued no tone, style or summary request, and one error
\* message is shown.
C10_Witness ==
  \E r \in DOMAIN runs :
    /\ runs[r].failed = "main"
    /\ runs[r].tone # ""
    /\ runs[r].style # "none"
    /\ runs[r].requests = <<"main">>
    /\ runs[r].errors = 1
    /\ runs[r].pc = "exit"
    /\ last.op = "main"
    /\ message = MsgServiceError
    /\ ~isLoading

\* The store holds nothing: the state InitStore describes.
StoreIsEmpty ==
  /\ corrections = <<>>
  /\ toneSuggestions = <<>>
  /\ styleSuggestions = <<>>
  /\ languageStyleMixing = null
  /\ punctuationIssues = <<>>
  /\ euphonyImprovements = <<>>
  /\ contentAnalysis = null
  /\ stats = [totalWords |-> 0, errorCount |-> 0, accuracy |-> 100]

NoHighlights(d) == \A i \in DOMAIN d : d[i].hl = NoHighlight

\* C11: a run issues no request before it has reset the store and awaited
\* clearHighlights; the step in which it enters its running state leaves
\* every list empty, the mixing group and the content analysis null and the
\* stats at 0, 0, 100, whatever an earlier run left there; and when its first
\* request goes out after clearHighlights succeeded, no cell of the document
\* is highlighted.
C11_FreshRunResets ==
  /\ \A r \in DOMAIN runs :
       runs[r].pc \in {"read", "clear"} => runs[r].requests = <<>>
  /\ (last.op = "read" /\ runs[last.run].pc # "exit") =>
       /\ runs[last.run].pc = "clear"
       /\ StoreIsEmpty
       /\ isLoading
  /\ (last.op = "clear" /\ last.outcome = "none") =>
       /\ runs[last.run].requests = <<"main">>
       /\ NoHighlights(doc)

\* The first request of a run has just gone out; before the run the store
\* held entries of every kind and the document highlights, and now the store
\* is empty and the document unmarked.
C11_WitnessCleared ==
  /\ last.op = "clear"
  /\ last.outcome = "none"
  /\ runs[last.run].requests = <<"main">>
  /\ ~NoHighlights(last.pre.doc)
  /\ NoHighlights(doc)
  /\ StoreIsEmpty
  /\ isLoading

\* The run has just entered its running state over a store that held
\* spelling, tone, style, punctuation, euphony and mixing entries.
C11_Witness ==
  /\ last.op = "read"
  /\ runs[last.run].pc = "clear"
  /\ last.pre.corrections # <<>>
  /\ last.pre.toneSuggestions # <<>>
  /\ last.pre.styleSuggestions # <<>>
  /\ last.pre.punctuationIssues # <<>>
  /\ last.pre.euphonyImprovements # <<>>
  /\ last.pre.languageStyleMixing # null
  /\ last.pre.contentAnalysis # null
  /\ last.pre.stats.totalWords > 0
  /\ StoreIsEmpty

\* ------------------------------------------------------------------------
\* Each list is set once in a run and then only shrinks
\* ------------------------------------------------------------------------

\* a is b with some entries left out, the rest in their order.
RECURSIVE IsSubList(_, _)
IsSubList(a, b) ==
  IF a = <<>> THEN TRUE
  ELSE IF b = <<>> THEN FALSE
  ELSE IF Head(a) = Head(b) THEN IsSubList(Tail(a), Tail(b))
  ELSE IsSubList(a, Tail(b))

\* The mixing group m is the group n, or n with corrections left out, or
\* the null that n collapsed to.
IsSubMixing(m, n) ==
  \/ m = n
  \/ /\ n # null
     /\ m = null
  \/ /\ n # null
     /\ m # null
     /\ m = [n EXCEPT !.corrections = m.corrections]
     /\ IsSubList(m.corrections, n.corrections)

\* How far a run has come.
Rank(pc) ==
  CASE pc = "read" -> 0
    [] pc = "clear" -> 1
    [] pc = "main" -> 2
    [] pc = "delay1" -> 3
    [] pc = "tone" -> 4
    [] pc = "delay2" -> 5
    [] pc = "style" -> 6
    [] pc = "delay3" -> 7
    [] pc = "content" -> 8
    [] pc = "highlight" -> 9
    [] pc = "exit" -> 10

\* The step being taken is run r receiving the answer to its request `step`
\* and moving on to the cool-down after it.
Ingests(r, step, next) ==
  /\ runs[r].pc = step
  /\ runs'[r].pc = next

\* The step being taken is a run entering its running state.
Resets == \E r \in DOMAIN runs : runs[r].pc = "read" /\ runs'[r].pc = "clear"

\* C12: no run ever goes back to an earlier step, so it receives the answer
\* to each of its requests once; and a step changes a list only by leaving
\* entries out, unless it is the reset of a run or the arrival of the answer
\* that list is set from (main: spelling, punctuation, euphony, mixing;
\* tone: tone; style: style).
C12_SetOnceThenShrink ==
  [][/\ \A r \in DOMAIN runs : Rank(runs'[r].pc) >= Rank(runs[r].pc)
     /\ \/ Resets
        \/ /\ \/ IsSubList(corrections', corrections)
              \/ \E r \in DOMAIN runs : Ingests(r, "main", "delay1")
           /\ \/ IsSubList(punctuationIssues', punctuationIssues)
              \/ \E r \in DOMAIN runs : Ingests(r, "main", "delay1")
           /\ \/ IsSubList(euphonyImprovements', euphonyImprovements)
              \/ \E r \in DOMAIN runs : Ingests(r, "main", "delay1")
           /\ \/ IsSubMixing(languageStyleMixing', languageStyleMixing)
              \/ \E r \in DOMAIN runs : Ingests(r, "main", "delay1")
           /\ \/ IsSubList(toneSuggestions', toneSuggestions)
              \/ \E r \in DOMAIN runs : Ingests(r, "tone", "delay2")
           /\ \/ IsSubList(styleSuggestions', styleSuggestions)
              \/ \E r \in DOMAIN runs : Ingests(r, "style", "delay3")]_vars

\* While a run is past its main check and not yet idle, a card click has left
\* some but not all spelling entries of that run in the list, and the tone
\* list set by the run is still whole.
C12_Witness ==
  \E r \in DOMAIN runs :
    /\ runs[r].pc \in {"delay2", "style", "delay3", "content", "highlight"}
    /\ last.op \in {"dismiss", "handleReplace"}
    /\ corrections # <<>>
    /\ corrections # runs[r].allSpelling
    /\ IsSubList(corrections, runs[r].allSpelling)
    /\ toneSuggestions # <<>>
    /\ toneSuggestions = runs[r].allTone

\* ------------------------------------------------------------------------
\* The stats
\* ------------------------------------------------------------------------

\* a is round(100 (words - errors) / words): the integer nearest to the
\* quotient, a half going upwards.
IsRounded(a, words, errors) ==
  /\ 2 * a * words - words <= 200 * (words - errors)
  /\ 200 * (words - errors) < 2 * a * words + words

\* C13: the stats set by the main check hold the number of white-space
\* separated words of the analysed text, the number of spelling entries, and
\* as accuracy round((totalWords - errorCount) / totalWords * 100), or 100
\* when there are no words.
C13_StatsFormula ==
  last.op = "setStats" =>
    /\ stats.totalWords = last.words
    /\ stats.errorCount = Len(last.allSpelling)
    /\ stats.totalWords > 0 =>
         IsRounded(stats.accuracy, stats.totalWords, stats.errorCount)
    /\ stats.totalWords = 0 => stats.accuracy = 100

\* The same without the rounding: the counts are those of the text and the
\* list, the accuracy is within one of the exact percentage, an empty text
\* gives 100, and 50 words with 5 errors give 90.
C13_StatsCounts ==
  last.op = "setStats" =>
    /\ stats.totalWords = last.words
    /\ stats.errorCount = Len(last.allSpelling)
    /\ stats.totalWords > 0 =>
         /\ (stats.accuracy - 1) * stats.totalWords
              < 100 * (stats.totalWords - stats.errorCount)
         /\ 100 * (stats.totalWords - stats.errorCount)
              < (stats.accuracy + 1) * stats.totalWords
    /\ stats.totalWords = 0 => stats.accuracy = 100
    /\ (stats.totalWords = 50 /\ stats.errorCount = 5) => stats.accuracy = 90

\* 40 words with 17 spelling entries: the exact percentage is 57.5.
C13_Witness ==
  /\ last.op = "setStats"
  /\ stats.totalWords = 40
  /\ stats.errorCount = 17
  /\ stats.accuracy = 57

\* ------------------------------------------------------------------------
\* normalize
\* ------------------------------------------------------------------------

\* The characters a and b are the same letter in either case.
SameLetter(a, b) == a = b \/ {a, b} = {"x", "X"}

SameWord(u, v) ==
  /\ Len(u) = Len(v)
  /\ \A i \in DOMAIN u : SameLetter(u[i], v[i])

\* x and y differ at most in the white space around them, in the length and
\* kind of the white-space runs between their words, and in letter case:
\* they are made of the same words.
SameTarget(x, y) ==
  /\ Len(SplitWords(x)) = Len(SplitWords(y))
  /\ \A i \in DOMAIN SplitWords(x) : SameWord(SplitWords(x)[i], SplitWords(y)[i])

NormalizeSeparates ==
  last.op = "normalize" => (last.nx = last.ny => SameTarget(last.x, last.y))

\* ------------------------------------------------------------------------
\* Ingest
\* ------------------------------------------------------------------------

\* The position an item sorts by: its index if it carries a number, else 0.
EffectivePosition(e) == IF e.position.t = "number" THEN e.position.v ELSE 0

\* The items of the list with effective position v, in their order.
WithPosition(list, v) == SelectSeq(list, LAMBDA e : EffectivePosition(e) = v)

\* The item as the store keeps it: a position that is not a number is absent.
Kept(e) ==
  IF e.position.t = "number" THEN e
  ELSE [text |-> e.text, suggestion |-> e.suggestion, position |-> undefined]

\* `list` holds exactly the items of the response, ascending by effective
\* position, the items of one position in their order of arrival.
IsIngestOf(list, items) ==
  /\ Len(list) = Len(items)
  /\ \A i \in DOMAIN list : \A j \in DOMAIN list :
       i < j => EffectivePosition(list[i]) <= EffectivePosition(list[j])
  /\ \A v \in {EffectivePosition(items[i]) : i \in DOMAIN items} :
       WithPosition(list, v) =
         WithPosition([i \in DOMAIN items |-> Kept(items[i])], v)

\* C15: after a response is ingested, each list set from it holds exactly
\* the items of the response (nothing of what the list held before), sorted
\* ascending by position with a missing position counting as 0 and equal
\* positions in arrival order; the corrections of the mixing group are sorted
\* by the same rule, whatever the group says otherwise.
C15_IngestSorts ==
  /\ last.op = "main" =>
       /\ IsIngestOf(corrections, last.items)
       /\ IsIngestOf(punctuationIssues, last.items)
       /\ IsIngestOf(euphonyImprovements, last.items)
       /\ last.shape \in {"detected", "undetected"} =>
            /\ languageStyleMixing # null
            /\ IsIngestOf(languageStyleMixing.corrections, last.mixing)
            /\ languageStyleMixing.detected = (last.shape = "detected")
       /\ toneSuggestions = last.pre.toneSuggestions
       /\ styleSuggestions = last.pre.styleSuggestions
  /\ last.op = "tone" =>
       /\ IsIngestOf(toneSuggestions, last.items)
       /\ corrections = last.pre.corrections
  /\ last.op = "style" =>
       /\ IsIngestOf(styleSuggestions, last.items)
       /\ corrections = last.pre.corrections

\* The response lists y at 1, x without position, y at 0, over a spelling
\* list that held an entry: the list becomes x, y at 0, y at 1; and the
\* mixing corrections y at 1, x, x at 0 become x, x at 0, y at 1.
C15_Witness ==
  /\ last.op = "main"
  /\ last.pre.corrections = <<EarlierEntry>>
  /\ last.items = <<Entry(Ty, Tz, Number(1)), Entry(Tx, Tz, undefined),
                    Entry(Ty, Tz, Number(0))>>
  /\ corrections = <<Entry(Tx, Tz, undefined), Entry(Ty, Tz, Number(0)),
                     Entry(Ty, Tz, Number(1))>>
  /\ last.shape = "undetected"
  /\ languageStyleMixing.corrections =
       <<Entry(Tx, Tz, undefined), Entry(Tx, Tz, Number(0)),
         Entry(Ty, Tz, Number(1))>>

\* ------------------------------------------------------------------------
\* Anchors within a category
\* ------------------------------------------------------------------------

\* No two entries of the list have anchors with the same normalize.
DistinctAnchors(list) ==
  \A i \in DOMAIN list : \A j \in DOMAIN list :
    i # j => normalize(list[i].text) # normalize(list[j].text)

\* C16: in every state of the store, no two entries of the same category
\* have anchors that normalize to the same value.
C16_DistinctAnchors ==
  /\ DistinctAnchors(corrections)
  /\ DistinctAnchors(toneSuggestions)
  /\ DistinctAnchors(styleSuggestions)
  /\ DistinctAnchors(punctuationIssues)
  /\ DistinctAnchors(euphonyImprovements)
  /\ languageStyleMixing # null => DistinctAnchors(languageStyleMixing.corrections)

\* The response flags the word x at index 0 and again at index 1, and both
\* entries are in the spelling list.
C16_Witness ==
  /\ last.op = "main"
  /\ last.items = <<Entry(Tx, Tz, Number(0)), Entry(Tx, Tz, Number(1))>>
  /\ corrections = last.items

\* ------------------------------------------------------------------------
\* The cards' document transactions (specification SpecHover)
\* ------------------------------------------------------------------------

\* The hovers explored in one behaviour, and the most transactions the cards
\* have in flight at once.
MaxHovers == 2
MaxInFlight == 2

\* The colour a card's onMouseEnter passes to handleHighlight.
CardColor(type) ==
  CASE type = "spelling" -> "#fee2e2"
    [] type = "tone" -> "#fef3c7"
    [] type = "style" -> "#ccfbf1"
    [] type = "mixing" -> "#e9d5ff"
    [] type = "punct" -> "#ffedd5"
    [] type = "euphony" -> "#fce7f3"

\* clearTimeout(id) on the pending timers: a timer that has fired is not
\* among them, and clearing it does nothing.
clearTimeout(pending, id) == {t \in pending : t.id # id}

\* handleHighlight without the clearTimeout.
handleHighlight_noCancel(text, color, position) ==
  \E id \in {highlightTimeoutRef + 1} :
    /\ timers' = timers \cup
                   {[id |-> id, text |-> text, color |-> color, position |-> position]}
    /\ highlightTimeoutRef' = id
    /\ last' = [op |-> "handleHighlight", n |-> last.n, id |-> id,
                cancelled |-> {}]
    /\ UNCHANGED <<doc, store, ui, runs, transactions>>

\* handleHighlight(text, color, position): clear the timer set last, set a
\* new one that will call highlightInWord with the arguments.
handleHighlight(text, color, position) ==
  \E id \in {highlightTimeoutRef + 1},
     kept \in {IF highlightTimeoutRef # 0
               THEN clearTimeout(timers, highlightTimeoutRef) ELSE timers} :
    /\ timers' = kept \cup
                   {[id |-> id, text |-> text, color |-> color, position |-> position]}
    /\ highlightTimeoutRef' = id
    /\ last' = [op |-> "handleHighlight", n |-> last.n, id |-> id,
                cancelled |-> {t.id : t \in timers \ kept}]
    /\ UNCHANGED <<doc, store, ui, runs, transactions>>

\* The pointer enters a card.
HandleHighlight ==
  \E type \in Categories :
    \E i \in DOMAIN Cards(type) :
      LET c == Cards(type)[i] IN
      /\ highlightTimeoutRef < MaxHovers
      /\ handleHighlight(c.text, CardColor(type), CardPosition(type, c))

\* A pending timer fires: its callback calls highlightInWord, whose
\* Word.run starts a document transaction.
HighlightTimerFires ==
  \E t \in timers :
    /\ Len(transactions) < MaxInFlight
    /\ timers' = timers \ {t}
    /\ transactions' = Append(transactions,
                              [kind |-> "highlight", id |-> t.id, text |-> t.text,
                               color |-> t.color, position |-> t.position])
    /\ last' = [op |-> "timer", n |-> last.n, id |-> t.id]
    /\ UNCHANGED <<doc, store, ui, runs, highlightTimeoutRef>>

\* The sequence without its element i.
RemoveAt(s, i) == SubSeq(s, 1, i - 1) \o SubSeq(s, i + 1, Len(s))

\* The replace transactions in flight.
ReplacesInFlight ==
  Cardinality({i \in DOMAIN transactions : transactions[i].kind = "replace"})

\* A plausible slip: the accept click clears the timer set last, as a new
\* hover does.
AcceptClick_cancels ==
  \E type \in Categories :
    \E i \in DOMAIN Cards(type) :
      LET c == Cards(type)[i] IN
      /\ last.n + ReplacesInFlight < MaxCardActions
      /\ Len(transactions) < MaxInFlight
      /\ transactions' = Append(transactions,
                                [kind |-> "replace", type |-> type, text |-> c.text,
                                 newText |-> c.suggestion,
                                 position |-> CardPosition(type, c)])
      /\ timers' = clearTimeout(timers, highlightTimeoutRef)
      /\ last' = [op |-> "accept", n |-> last.n, type |-> type, text |-> c.text]
      /\ UNCHANGED <<doc, store, ui, runs, highlightTimeoutRef>>

\* A click on a suggestion button of a card: handleReplace calls
\* replaceInWord, whose Word.run starts a document transaction.
AcceptClick ==
  \E type \in Categories :
    \E i \in DOMAIN Cards(type) :
      LET c == Cards(type)[i] IN
      /\ last.n + ReplacesInFlight < MaxCardActions
      /\ Len(transactions) < MaxInFlight
      /\ transactions' = Append(transactions,
                                [kind |-> "replace", type |-> type, text |-> c.text,
                                 newText |-> c.suggestion,
                                 position |-> CardPosition(type, c)])
      /\ last' = [op |-> "accept", n |-> last.n, type |-> type, text |-> c.text]
      /\ UNCHANGED <<doc, store, ui, runs, highlightTimeoutRef, timers>>

\* The transaction of a highlightInWord ends: the highlights are in the
\* document, or the host failed and the failure was logged.
HighlightDone ==
  \E i \in DOMAIN transactions, fail \in HostFailures :
    LET t == transactions[i] IN
    /\ t.kind = "highlight"
    /\ doc' = highlightInWord(doc, t.text, t.color, t.position, fail).doc
    /\ transactions' = RemoveAt(transactions, i)
    /\ last' = [op |-> "highlightDone", n |-> last.n, id |-> t.id, fail |-> fail]
    /\ UNCHANGED <<store, ui, runs, highlightTimeoutRef, timers>>

\* The transaction of a replaceInWord ends and handleReplace goes on after
\* its await.
ReplaceDone ==
  \E i \in DOMAIN transactions, fail \in HostFailures :
    LET t == transactions[i] IN
    /\ t.kind = "replace"
    /\ handleReplace(t.type, t.text, t.newText, t.position, fail)
    /\ transactions' = RemoveAt(transactions, i)
    /\ UNCHANGED <<highlightTimeoutRef, timers>>

NextHover ==
  \/ BatchHighlightDone
  \/ MessageTimeout
  \/ HandleHighlight
  \/ HighlightTimerFires
  \/ HighlightDone
  \/ AcceptClick
  \/ ReplaceDone
  \/ DismissSuggestion

\* A run over "x y" with a tone and a style selected has been answered at
\* every step, the main response without a spelling error; its results are
\* in the store and it has started its batch highlight: the cards are on
\* the panel while the run's transaction is in flight.
InitBatchHighlight ==
  \E result \in {m \in MainResults : m.spellingErrors = <<>>},
     tone \in ToneResults, style \in StyleResults, content \in ContentResults :
    /\ doc = PlainCells(<<"x", " ", "y">>)
    /\ corrections = Ingest(result.spellingErrors)
    /\ punctuationIssues = Ingest(result.punctuationIssues)
    /\ euphonyImprovements = Ingest(result.euphonyImprovements)
    /\ languageStyleMixing = MixingOf(result.mixingShape, result.mixingCorrections)
    /\ toneSuggestions = Ingest(tone)
    /\ styleSuggestions = Ingest(style)
    /\ contentAnalysis = content
    /\ stats = StatsOf(BodyText(doc), corrections)
    /\ isLoading = TRUE
    /\ loadingText = "highlight"
    /\ message = null
    /\ activeModal = "none"
    /\ highlightTimeoutRef = 0
    /\ timers = {}
    /\ transactions = <<>>
    /\ runs = << [NewRun("formal", "sadhu") EXCEPT
                    !.pc = "highlight",
                    !.text = BodyText(doc),
                    !.allSpelling = corrections,
                    !.allTone = toneSuggestions,
                    !.allStyle = styleSuggestions,
                    !.requests = <<"main", "tone", "style", "content">>,
                    !.ingested = IngestedByMain(result) \cup EntrySet(toneSuggestions)
                                   \cup EntrySet(styleSuggestions),
                    !.highlighted = EntrySet(toneSuggestions)
                                      \cup EntrySet(styleSuggestions)] >>
    /\ last = [op |-> "content", n |-> 0, run |-> 1, outcome |-> "ok"]

SpecHover == InitBatchHighlight /\ [][NextHover]_vars

\* The runs whose clearHighlights or batch highlight is in flight.
RunTransactions ==
  Cardinality({r \in DOMAIN runs : runs[r].pc \in {"clear", "highlight"}})

\* The document transactions in flight: the runs' and the cards'.
InFlight == Len(transactions) + RunTransactions

\* C17: at no time are two document transactions in flight: the run's
\* clearHighlights and batch highlight, the highlights started by the
\* debounce timer and the replaces started by accept clicks follow one
\* another.
C17_TransactionsSequenced == InFlight <= 1

\* The replace of an accept click is in flight while the batch highlight of
\* the run is.
C17_Witness ==
  /\ \E r \in DOMAIN runs : runs[r].pc = "highlight"
  /\ \E i \in DOMAIN transactions : transactions[i].kind = "replace"

\* The ids of the highlight transactions among the given transactions.
HighlightIds(txs) ==
  {txs[i].id : i \in {j \in DOMAIN txs : txs[j].kind = "highlight"}}

\* At most one highlight request is pending, and it is the one made last.
PendingAtMostOne ==
  /\ Cardinality(timers) <= 1
  /\ \A t \in timers : t.id = highlightTimeoutRef

\* A step with a new highlight request: the request is the only one pending
\* afterwards, and the transactions in flight are as they were.
RequestCancelsPending ==
  highlightTimeoutRef' # highlightTimeoutRef =>
    /\ \E t \in timers' : timers' = {t} /\ t.id = highlightTimeoutRef'
    /\ last'.op = "handleHighlight"
    /\ last'.cancelled = {t.id : t \in timers}
    /\ transactions' = transactions

\* A step that starts a highlight transaction: it is started by the timer
\* of the request made last, with the arguments of that request.
OnlyLastRequestStarts ==
  \A k \in HighlightIds(transactions') \ HighlightIds(transactions) :
    /\ k = highlightTimeoutRef
    /\ last'.op = "timer" /\ last'.id = k
    /\ \E t \in timers, i \in DOMAIN transactions' :
         /\ t.id = k
         /\ transactions'[i] = [kind |-> "highlight", id |-> k, text |-> t.text,
                                color |-> t.color, position |-> t.position]

\* A step that ends a highlight transaction: the transaction has run against
\* the document; no request and no click takes it away.
StartedHighlightCompletes ==
  \A k \in HighlightIds(transactions) \ HighlightIds(transactions') :
    /\ last'.op = "highlightDone" /\ last'.id = k
    /\ \E i \in DOMAIN transactions :
         /\ transactions[i].kind = "highlight" /\ transactions[i].id = k
         /\ doc' = highlightInWord(doc, transactions[i].text, transactions[i].color,
                                   transactions[i].position, last'.fail).doc

\* C18: a new highlight request cancels the request scheduled before it
\* that has not run yet, so at most one request is pending; of requests
\* that each arrive before the timer of the one before has fired only the
\* last starts a document transaction; a highlight whose transaction has
\* started is not cancelled.
C18_HoverDebounce ==
  /\ []PendingAtMostOne
  /\ [][RequestCancelsPending /\ OnlyLastRequestStarts
          /\ StartedHighlightCompletes]_vars

\* A second request has just cancelled the first, which was still pending,
\* and is now the only one pending.
C18_Witness ==
  /\ last.op = "handleHighlight"
  /\ last.id = 2
  /\ last.cancelled = {1}
  /\ {t.id : t \in timers} = {2}

\* ------------------------------------------------------------------------
\* The order of the service requests
\* ------------------------------------------------------------------------

\* The requests a run with the given selections issues when nothing fails.
PlannedSteps(run) ==
  <<"main">> \o (IF run.tone # "" THEN <<"tone">> ELSE <<>>)
             \o (IF run.style # "none" THEN <<"style">> ELSE <<>>)
             \o <<"content">>

\* The run is waiting for the response to a request.
Outstanding(run) == run.pc \in ServiceSteps

\* The requests of every run so far are the first steps of its plan, and
\* the run waits for a response exactly to the request it issued last.
RequestsFollowPlan ==
  \A r \in DOMAIN runs :
    LET q == runs[r].requests
        plan == PlannedSteps(runs[r])
    IN /\ Len(q) <= Len(plan)
       /\ q = SubSeq(plan, 1, Len(q))
       /\ Outstanding(runs[r]) => (q # <<>> /\ q[Len(q)] = runs[r].pc)

\* A step in which run r issues a request: none is outstanding, the main
\* request follows clearHighlights and every later one a cool-down that
\* followed the response to the previous request.
IssuesAfterCoolDown ==
  \A r \in DOMAIN runs :
    (r \in DOMAIN runs' /\ runs'[r].requests # runs[r].requests) =>
      /\ ~Outstanding(runs[r])
      /\ runs'[r].requests = Append(runs[r].requests, runs'[r].pc)
      /\ Outstanding(runs'[r])
      /\ IF runs[r].requests = <<>>
         THEN runs[r].pc = "clear" /\ runs'[r].pc = "main"
         ELSE /\ runs[r].pc \in {"delay1", "delay2", "delay3"}
              /\ last'.op = "delay"

\* A run stops waiting for a response only in the step that processes the
\* response, and that step issues no request.
WaitsForResponse ==
  \A r \in DOMAIN runs :
    (Outstanding(runs[r]) /\ runs'[r].pc # runs[r].pc) =>
      /\ last'.op = runs[r].pc
      /\ last'.run = r
      /\ runs'[r].requests = runs[r].requests
      /\ runs'[r].pc \in {"delay1", "delay2", "delay3", "highlight", "exit"}

\* C19: within a run the service requests go out one after another in the
\* order main, tone (only with a tone selected), style (only with a style
\* selected), content; a request goes out only after the response to the
\* previous one was processed and a cool-down elapsed, so a run never has
\* two requests outstanding.
C19_RequestsOneAfterAnother ==
  /\ []RequestsFollowPlan
  /\ [][IssuesAfterCoolDown /\ WaitsForResponse]_vars

\* A run with a tone and a style selected has issued all four requests and
\* ended without a failure.
C19_Witness ==
  \E r \in DOMAIN runs :
    /\ runs[r].tone # "" /\ runs[r].style # "none"
    /\ runs[r].requests = <<"main", "tone", "style", "content">>
    /\ runs[r].pc = "exit"
    /\ runs[r].failed = "none"

\* ------------------------------------------------------------------------
\* A response without a parsed object
\* ------------------------------------------------------------------------

\* C20: when the response to the request of a step is empty or does not
\* parse, the run ends at that step with the service error message, the
\* step is recorded as the one that failed and no later request goes out.
C20_MalformedResponseAborts ==
  (last.op \in ServiceSteps /\ last.outcome = "null") =>
    /\ runs[last.run].pc = "exit"
    /\ runs[last.run].failed = last.op
    /\ runs[last.run].errors = 1
    /\ message = MsgServiceError
    /\ ~isLoading

\* The main request was answered without text: the run is in the cool-down
\* before its next request, still loading, and no message is shown.
C20_Witness ==
  /\ last.op = "main"
  /\ last.outcome = "null"
  /\ runs[last.run].pc = "delay1"
  /\ runs[last.run].failed = "none"
  /\ isLoading
  /\ message = null

\* ------------------------------------------------------------------------
\* A highlight the host fails
\* ------------------------------------------------------------------------

\* A step in which the highlight of a card ends with the host having
\* failed: the store, the messages and the runs are as before.
CardHighlightFailureSwallowed ==
  \A k \in HighlightIds(transactions) \ HighlightIds(transactions') :
    last'.fail # "none" =>
      /\ UNCHANGED <<store, ui, runs>>
      /\ Len(transactions') = Len(transactions) - 1

\* A step in which the batch highlight of a run ends with the host having
\* failed: the run ends as after a highlight that worked, with no failure
\* recorded and no message, and the store is as before.
BatchHighlightFailureSwallowed ==
  \A r \in DOMAIN runs :
    (runs[r].pc = "highlight" /\ runs'[r].pc # "highlight"
       /\ last'.outcome # "none") =>
      /\ runs'[r] = [runs[r] EXCEPT !.pc = "exit"]
      /\ runs[r].failed = "none"
      /\ isLoading' = FALSE
      /\ loadingText' = ""
      /\ message' = message
      /\ UNCHANGED store

HostFailedInCall ==
  LET clean == Trim(last.text)
      d == last.pre.doc
      fast == UsePosition(clean, last.position)
      inBounds == fast /\ last.position.v < Len(getTextRanges(d))
  IN /\ clean # <<>>
     /\ \/ last.fail = "load" /\ fast
        \/ last.fail = "search" /\ ~inBounds
        \/ last.fail = "flush"
             /\ (inBounds \/ FoundAny(search(d, clean, ~HasSpace(clean))))

\* C22: when the host fails during a replace, at the token load, at the
\* search or at the flush, replaceInWord returns false to handleReplace,
\* the document has none of the call's edits, and the store is as before.
C22_ReplaceFailureRecovered ==
  (last.op = "handleReplace" /\ HostFailedInCall) =>
    /\ ~last.success
    /\ last.ranges = <<>>
    /\ Snapshot = last.pre
    /\ message = MsgNotFound

\* The flush of a replace that had resolved the token at index 0 failed.
C22_Witness ==
  /\ last.op = "handleReplace"
  /\ last.fail = "flush"
  /\ last.position = Number(0)
  /\ HostFailedInCall
  /\ ~last.success
  /\ doc = last.pre.doc

\* ------------------------------------------------------------------------
\* A replace whose anchor is gone
\* ------------------------------------------------------------------------

\* The anchor of the call recorded in `last` occurs nowhere in the document
\* the call started from.
AnchorAbsent ==
  /\ Trim(last.text) # <<>>
  /\ Occurrences(BodyText(last.pre.doc), last.text) = {}

\* C23: a replace whose anchor occurs nowhere in the document returns false
\* and leaves the text of the document as it was, whatever position is
\* passed.
C23_AbsentAnchorFails ==
  (last.op = "replace" /\ AnchorAbsent) =>
    /\ ~last.success
    /\ BodyText(doc) = BodyText(last.pre.doc)

\* The anchor is absent, the position names a token of the document, and
\* the call returned true after rewriting that token.
C23_Witness ==
  /\ last.op = "replace"
  /\ AnchorAbsent
  /\ IsNumber(last.position)
  /\ last.success
  /\ BodyText(doc) # BodyText(last.pre.doc)

\* ------------------------------------------------------------------------
\* Positions the fast path cannot use
\* ------------------------------------------------------------------------

\* The anchor is a single token and the position a non-negative integer.
PositionUsable ==
  /\ ~HasSpace(Trim(last.text))
  /\ IsNumber(last.position)
  /\ IsInteger(last.position)
  /\ last.position.v >= 0

\* C24: the position fast path is taken only for a single token with a
\* non-negative integer position; with a position that is absent, negative
\* or not an integer the operation searches and acts on every occurrence of
\* the anchor (and on nothing when there is none).
C24_FallbackForUnusablePosition ==
  (IsWordCall /\ last.fail = "none" /\ Trim(last.text) # <<>> /\ ~PositionUsable) =>
    LET occ == Occurrences(BodyText(last.pre.doc), last.text) IN
    /\ RangeSet(last.ranges) \subseteq occ
    /\ \A o \in occ : \E r \in RangeSet(last.ranges) : Overlap(o, r)
    /\ occ # {} => ActedOnExactly(RangeSet(last.ranges))
    /\ occ = {} => doc = last.pre.doc

\* A replace of x, which is in the document, with the position 1/2 and no
\* host failure: nothing was resolved and the call returned false.
C24_Witness ==
  /\ last.op = "replace"
  /\ last.fail = "none"
  /\ last.text = Tx
  /\ last.position = NonInteger(0)
  /\ Occurrences(BodyText(last.pre.doc), last.text) # {}
  /\ last.ranges = <<>>
  /\ ~last.success
  /\ doc = last.pre.doc

\* ------------------------------------------------------------------------
\* The mixing group: absent or with corrections
\* ------------------------------------------------------------------------

\* C25: in every state of the store the mixing group is null or holds a
\* corrections list that is not empty.
C25_MixingAbsentOrNonEmpty ==
  languageStyleMixing # null =>
    /\ languageStyleMixing.hasCorrections
    /\ Len(languageStyleMixing.corrections) > 0

\* The main response carried a mixing group with an empty corrections list,
\* and the group is in the store with that empty list.
C25_Witness ==
  /\ last.op = "main"
  /\ last.shape = "detected"
  /\ last.mixing = <<>>
  /\ languageStyleMixing # null
  /\ languageStyleMixing.hasCorrections
  /\ languageStyleMixing.corrections = <<>>

\* ------------------------------------------------------------------------
\* Highlights for what a run ingested
\* ------------------------------------------------------------------------

\* C26: when a run has returned to idle, a highlight has been issued for
\* every entry of every response the run ingested, in every category, also
\* when a later step of the run failed.
C26_IngestedEntriesHighlighted ==
  \A r \in DOMAIN runs :
    runs[r].pc = "exit" => runs[r].ingested \subseteq runs[r].highlighted

\* A run has ended without a failure and issued its batch highlight, and
\* an entry it ingested was not among the items of the batch.
C26_Witness ==
  \E r \in DOMAIN runs :
    /\ runs[r].pc = "exit"
    /\ runs[r].failed = "none"
    /\ runs[r].highlighted # {}
    /\ \E e \in runs[r].ingested : e \notin runs[r].highlighted

\* A run ingested the main response, a later step failed, and the run has
\* ended without issuing a highlight.
C26_WitnessFailed ==
  \E r \in DOMAIN runs :
    /\ runs[r].pc = "exit"
    /\ runs[r].failed \in {"tone", "style", "content"}
    /\ runs[r].ingested # {}
    /\ runs[r].highlighted = {}

\* ------------------------------------------------------------------------
\* One run at a time
\* ------------------------------------------------------------------------

\* The run has entered its running state and not yet returned to idle.
Running(run) == run.pc \notin {"read", "exit"}

\* C27: at most one run is in the running state at any time, so a second
\* checkSpelling neither resets the store nor issues a request while an
\* earlier run has not returned to idle.
C27_OneRunAtATime ==
  Cardinality({r \in DOMAIN runs : Running(runs[r])}) <= 1

\* The store holds the spelling list the first run ingested together with
\* the tone list of the second run, which had reset the store before.
C27_Witness ==
  /\ Len(runs) = 2
  /\ runs[1].tone = "" /\ runs[2].tone # ""
  /\ runs[1].allSpelling # <<>> /\ runs[2].allSpelling = <<>>
  /\ runs[2].allTone # <<>>
  /\ corrections = runs[1].allSpelling
  /\ toneSuggestions = runs[2].allTone

\* ------------------------------------------------------------------------
\* C28
\* ------------------------------------------------------------------------

\* The run has returned to idle: checkSpelling is over, isLoading is false
\* and the loading text is empty.
BackToIdle(r) ==
  /\ r \in DOMAIN runs
  /\ runs[r].pc = "exit"
  /\ ~isLoading
  /\ loadingText = ""

\* C28: every run that enters the running state eventually returns to idle
\* (isLoading false, loading text empty), whether its steps succeed, fail or
\* return no result, provided every awaited call and cool-down settles.
C28_RunReturnsToIdle ==
  \A r \in 1..MaxRuns :
    (r \in DOMAIN runs /\ Running(runs[r])) ~> BackToIdle(r)

\* A run whose main step returned and whose tone request failed is back to
\* idle.
C28_Witness ==
  \E r \in DOMAIN runs :
    /\ BackToIdle(r)
    /\ runs[r].requests = <<"main", "tone">>
    /\ runs[r].failed = "tone"

\* A run that went through all four steps and the batch highlight is back
\* to idle.
C28_WitnessCompleted ==
  \E r \in DOMAIN runs :
    /\ BackToIdle(r)
    /\ runs[r].requests = <<"main", "tone", "style", "content">>
    /\ runs[r].failed = "none"
    /\ last.op = "highlight"

\* ------------------------------------------------------------------------
\* C29
\* ------------------------------------------------------------------------

\* The entries of every category a snapshot holds, the mixing corrections
\* included.
AllEntries(snap) ==
  UNION {EntrySet(ListOf(snap, type)) : type \in ListCategories}
    \cup EntrySet(MixingCorrections(snap.languageStyleMixing))

\* C29: when a single-token suggestion with an in-bounds position is
\* accepted, exactly the document token at that position is rewritten, and
\* no entry with that normalized anchor stays in any category, whatever
\* position it was recorded at.
C29_OneTokenAllEntries ==
  (/\ last.op = "handleReplace"
   /\ last.fail = "none"
   /\ Trim(last.text) # <<>>
   /\ SingleTokenInBounds) =>
    LET r == TokenRange(BodyText(last.pre.doc), last.position.v) IN
    /\ last.success
    /\ doc = Rewritten(last.pre.doc, {r}, last.newText, 1)
    /\ \A e \in AllEntries(Snapshot) : normalize(e.text) # normalize(last.text)
    /\ \A e \in AllEntries(last.pre) :
         normalize(e.text) # normalize(last.text) => e \in AllEntries(Snapshot)

\* x at index 0 was accepted while the store also held x at index 2: the
\* token at index 2 still reads x and carries its highlight, and its entry
\* is gone.
C29_Witness ==
  /\ last.op = "handleReplace"
  /\ last.fail = "none"
  /\ last.text = Tx
  /\ last.position = Number(0)
  /\ \E e \in AllEntries(last.pre) : e.text = Tx /\ e.position = Number(2)
  /\ \A e \in AllEntries(Snapshot) : e.text # Tx
  /\ Len(doc) = 5
  /\ doc[1].ch = "z"
  /\ doc[5] = [ch |-> "x", hl |-> "#fee2e2"]

\* ------------------------------------------------------------------------
\* C30
\* ------------------------------------------------------------------------

\* The step is an accept click, the rest of handleReplace after its await,
\* or a dismissSuggestion.
CardActionStep ==
  \/ /\ Len(transactions') = Len(transactions) + 1
     /\ transactions'[Len(transactions')].kind = "replace"
  \/ last'.n = last.n + 1

\* A card action leaves the pending timers and the timer reference alone.
PendingHighlightKept ==
  CardActionStep =>
    /\ timers' = timers
    /\ highlightTimeoutRef' = highlightTimeoutRef

\* A timer that fires starts highlightInWord with the anchor, colour and
\* position it was set with.
TimerUsesStoredArguments ==
  (/\ Len(transactions') = Len(transactions) + 1
   /\ transactions'[Len(transactions')].kind = "highlight") =>
    \E t \in timers :
      /\ timers' = timers \ {t}
      /\ transactions'[Len(transactions')] =
           [kind |-> "highlight", id |-> t.id, text |-> t.text,
            color |-> t.color, position |-> t.position]

\* The highlight that was started acts on the document as it is by then.
HighlightActsOnCurrentDocument ==
  (/\ last'.op = "highlightDone"
   /\ Len(transactions') = Len(transactions) - 1) =>
    \E i \in DOMAIN transactions :
      /\ transactions[i].kind = "highlight"
      /\ transactions[i].id = last'.id
      /\ transactions' = RemoveAt(transactions, i)
      /\ doc' = highlightInWord(doc, transactions[i].text, transactions[i].color,
                                transactions[i].position, last'.fail).doc

\* C30: handleReplace and dismissSuggestion never cancel a pending debounced
\* highlight; the timer still fires afterwards and highlights with the
\* anchor and position the hover passed, on the document as the replace
\* left it.
C30_PendingHighlightSurvives ==
  [][/\ PendingHighlightKept
     /\ TimerUsesStoredArguments
     /\ HighlightActsOnCurrentDocument]_vars

\* The style card of x at index 0 was hovered and accepted; the replace
\* wrote z without highlight, the style entry is gone, and the hover's
\* highlight then marked z in the style colour.
C30_Witness ==
  /\ last.op = "highlightDone"
  /\ last.fail = "none"
  /\ runs[1].pc = "exit"
  /\ styleSuggestions = <<>>
  /\ message = MsgCorrected
  /\ doc[1] = [ch |-> "z", hl |-> "#ccfbf1"]

====
